---------------------------- MODULE Spec2Model ----------------------------
(***************************************************************************)
(* Usage-metering interception layer of revenium-middleware-anthropic:     *)
(* the Messages.create / Messages.stream wrappers (middleware.py), the     *)
(* Bedrock adapter (bedrock_adapter.py) and provider detection             *)
(* (provider.py), as a state machine.                                       *)
(*                                                                         *)
(* Text is a sequence of characters, so that accumulating fragments loses  *)
(* the fragment boundaries exactly as string concatenation does.           *)
(***************************************************************************)
EXTENDS Integers, Sequences, FiniteSets, TLC

(***************************************************************************)
(* Bounds of the model.                                                     *)
(***************************************************************************)
\* how many times a caller may leave the context of one stream
MaxExits == 2
\* how many times a caller may ask one stream for its final message
MaxFinals == 1
\* how many fragments a caller may pull from one stream
MaxPulls == 3
\* longest cloud event sequence explored by the stream decoder specification
MaxEvents == 3
\* how many times a stateless function is called on the same arguments
MaxRepeats == 2

\* the configured capacity of the region client cache
CacheSize == 2
\* how many boto3 clients are constructed at most
MaxClients == 4

\* how many get_or_detect_provider calls are made at most
MaxLookups == 3

(***************************************************************************)
(* Values.                                                                  *)
(***************************************************************************)
\* Python's None
NoneV == "None"

CallIds == {"c1", "c2"}

\* usage metadata: a flat mapping; a key the mapping does not hold reads as
\* None through dict.get
MdKeys == {"trace_id", "organization_id"}
EmptyMd == [k \in MdKeys |-> NoneV]
MdT1 == [trace_id |-> "t1", organization_id |-> "acme"]
MdOrgOnly == [trace_id |-> NoneV, organization_id |-> "acme"]
MdAmbient == [trace_id |-> "ta", organization_id |-> "amb"]

\* the value passed as usage_metadata=...: a dict, or something that is not
UmDict(md) == [isdict |-> TRUE, d |-> md]
UmNotDict == [isdict |-> FALSE, d |-> EmptyMd]

\* Python values whose type the library tests.  A number is held in tenths;
\* a string given where a number is expected spells that number (with a
\* decimal point unless it is whole)
PyInt(n) == [type |-> "int", tenths |-> 10 * n]
PyFloat(tenths) == [type |-> "float", tenths |-> tenths]
PyNumStr(tenths) == [type |-> "str", tenths |-> tenths]
PyNone == [type |-> "NoneType", tenths |-> 0, items |-> << >>]
\* containers and strings: the sequence of their elements or characters
PyList(items) == [type |-> "list", items |-> items]
PyTuple(items) == [type |-> "tuple", items |-> items]
PyStr(chars) == [type |-> "str", items |-> chars]
\* an element of messages: a dict with its entries, or something else
PyDict(d) == [type |-> "dict", d |-> d]
NotADict == [type |-> "str", d |-> [text |-> "Hello"]]

Msg == PyDict([role |-> "user", content |-> "Hello"])
MsgsOk == PyList(<< Msg >>)
MsgsEmpty == PyList(<< >>)

\* a URL is the sequence of its characters; a base URL that is None or ""
\* (the two values the truth tests of detect_provider do not tell apart) is
\* the empty sequence
NoUrl == << >>
Https == << "h", "t", "t", "p", "s", ":", "/", "/" >>
AmazonAwsCom == << "a", "m", "a", "z", "o", "n", "a", "w", "s", ".", "c", "o", "m" >>
UrlAnthropic ==
  Https \o << "a", "p", "i", ".", "a", "n", "t", "h", "r", "o", "p", "i", "c", ".", "c", "o", "m" >>
AmazonAwsMixed == << "A", "m", "a", "z", "o", "n", "A", "W", "S", ".", "c", "o", "m" >>
RegionHost == Https \o << "b", "r", ".", "u", "s", "-", "1", "." >>
UrlAws == RegionHost \o AmazonAwsMixed

\* str.lower() on the ASCII letters
UpperLetters ==
  << "A", "B", "C", "D", "E", "F", "G", "H", "I", "J", "K", "L", "M",
     "N", "O", "P", "Q", "R", "S", "T", "U", "V", "W", "X", "Y", "Z" >>
LowerLetters ==
  << "a", "b", "c", "d", "e", "f", "g", "h", "i", "j", "k", "l", "m",
     "n", "o", "p", "q", "r", "s", "t", "u", "v", "w", "x", "y", "z" >>
LowerChar(ch) ==
  IF \E i \in 1..Len(UpperLetters) : UpperLetters[i] = ch
    THEN LowerLetters[CHOOSE i \in 1..Len(UpperLetters) : UpperLetters[i] = ch]
    ELSE ch
Lower(str) == [i \in 1..Len(str) |-> LowerChar(str[i])]

\* sub in str
Contains(sub, str) ==
  \E i \in 0..(Len(str) - Len(sub)) : SubSeq(str, i + 1, i + Len(sub)) = sub

\* "amazonaws.com" in str(url).lower()
ContainsAws(url) == Contains(AmazonAwsCom, Lower(url))

\* the caller's keyword arguments: a mapping from the keys passed to values
BaseKw == [model |-> "claude-3-sonnet-20240229", messages |-> MsgsOk, max_tokens |-> PyInt(100)]
With(kw, k, v) == [x \in DOMAIN kw \cup {k} |-> IF x = k THEN v ELSE kw[x]]
Without(kw, k) == [x \in DOMAIN kw \ {k} |-> kw[x]]
Get(kw, k, default) == IF k \in DOMAIN kw THEN kw[k] ELSE default

KwargsSet ==
  { BaseKw,
    With(BaseKw, "usage_metadata", UmDict(MdT1)),
    With(BaseKw, "usage_metadata", UmNotDict),
    With(With(BaseKw, "usage_metadata", UmDict(MdOrgOnly)), "base_url", UrlAws),
    With(With(BaseKw, "usage_metadata", UmDict(MdT1)), "max_tokens", PyInt(0)) }

\* instance._client as provider detection sees it
\* present: the object is not None; has_meta: it has a meta attribute;
\* service_model: what meta.service_model is ("absent": meta has no such
\* attribute, "no_name": an object without service_name, such as None,
\* "named": an object whose service_name is the field service_name);
\* has_base_url: it has a base_url attribute
Client(has_meta, service_model, service_name, has_base_url, base_url) ==
  [present |-> TRUE, has_meta |-> has_meta, service_model |-> service_model,
   service_name |-> service_name, has_base_url |-> has_base_url, base_url |-> base_url]
NoClient ==
  [present |-> FALSE, has_meta |-> FALSE, service_model |-> "absent",
   service_name |-> NoneV, has_base_url |-> FALSE, base_url |-> NoUrl]
ClientPlain == Client(FALSE, "absent", NoneV, TRUE, UrlAnthropic)
ClientBedrock == Client(TRUE, "named", "bedrock-runtime", FALSE, NoUrl)
ClientAwsUrl == Client(FALSE, "absent", NoneV, TRUE, UrlAws)
ClientSet == {ClientPlain, ClientBedrock}

\* a response message; "lacks" names the attribute the object does not have
NoResponse ==
  [src |-> "none", lacks |-> "nothing", id |-> NoneV, model |-> NoneV,
   input_tokens |-> 0, output_tokens |-> 0, total_tokens |-> 0, stop_reason |-> NoneV]
DirectResponse(lacks, stop) ==
  [src |-> "direct", lacks |-> lacks, id |-> "msg_direct", model |-> "claude-3-sonnet-20240229",
   input_tokens |-> 10, output_tokens |-> 5, total_tokens |-> 0, stop_reason |-> stop]
StopReasons == {"end_turn", "tool_use", "max_tokens", "content_filter", "pause_turn", NoneV}
Shapes == {"id", "usage", "cache_tokens", "stop_reason"}
DirectResponses ==
  { DirectResponse("nothing", s) : s \in StopReasons }
    \cup { DirectResponse(l, "end_turn") : l \in Shapes }


\* text, as a sequence of characters
TextHi == << "h", "i" >>

(***************************************************************************)
(* provider.py                                                              *)
(***************************************************************************)
\* hasattr(client.meta, "service_model") and
\* client.meta.service_model.service_name == "bedrock-runtime"
ServiceNameTest(client) ==
  CASE client.service_model = "absent" -> "false"
    [] client.service_model = "no_name" -> "AttributeError"
    [] OTHER -> IF client.service_name = "bedrock-runtime" THEN "true" ELSE "false"

\* variant of detect_provider without the try around the service-name test
DetectProviderNoTry(client, base_url) ==
  IF client.present /\ client.has_meta /\ ServiceNameTest(client) = "AttributeError"
    THEN "AttributeError"
  ELSE IF client.present /\ client.has_meta /\ ServiceNameTest(client) = "true"
    THEN "BEDROCK"
  ELSE IF base_url # NoUrl /\ ContainsAws(base_url)
    THEN "BEDROCK"
  ELSE IF client.present /\ client.has_base_url /\ client.base_url # NoUrl
          /\ ContainsAws(client.base_url)
    THEN "BEDROCK"
  ELSE "ANTHROPIC"

\* detect_provider: the value returned, or the name of the exception raised;
\* an AttributeError of the service-name test is caught and passed over
DetectProvider(client, base_url) ==
  IF client.present /\ client.has_meta /\ ServiceNameTest(client) = "true"
    THEN "BEDROCK"
  ELSE IF base_url # NoUrl /\ ContainsAws(base_url)
    THEN "BEDROCK"
  ELSE IF client.present /\ client.has_base_url /\ client.base_url # NoUrl
          /\ ContainsAws(client.base_url)
    THEN "BEDROCK"
  ELSE "ANTHROPIC"

GetProviderMetadata(provider) ==
  IF provider = "BEDROCK"
    THEN [provider |-> "AWS", model_source |-> "ANTHROPIC"]
    ELSE [provider |-> "ANTHROPIC", model_source |-> "ANTHROPIC"]

(***************************************************************************)
(* bedrock_adapter.py: payload construction                                 *)
(***************************************************************************)
\* outcome of a validator: passed, or the BedrockValidationError it raised
\* (index: the 0-based position of the message the error names, -1 if none)
Valid == [ok |-> TRUE, error |-> NoneV, index |-> -1]
Invalid(error, index) == [ok |-> FALSE, error |-> error, index |-> index]

\* what is wrong with one element of messages, in the order of the tests
MessageFault(message) ==
  IF message.type # "dict" THEN "must be a dict"
  ELSE IF "role" \notin DOMAIN message.d THEN "missing required 'role' field"
  ELSE IF "content" \notin DOMAIN message.d THEN "missing required 'content' field"
  ELSE NoneV

\* variant of _validate_messages that does not test for content
ValidateMessagesRoleOnly(messages) ==
  IF messages.type # "list" THEN Invalid("messages must be a list", -1)
  ELSE IF messages.items = << >> THEN Invalid("messages cannot be empty", -1)
  ELSE LET bad(i) == messages.items[i].type # "dict" \/ "role" \notin DOMAIN messages.items[i].d
       IN IF \E i \in 1..Len(messages.items) : bad(i)
            THEN LET i == CHOOSE k \in 1..Len(messages.items) :
                             bad(k) /\ \A j \in 1..(k - 1) : ~bad(j)
                 IN Invalid(MessageFault(messages.items[i]), i - 1)
            ELSE Valid

\* _validate_messages: the loop raises at the first element with a fault
ValidateMessages(messages) ==
  IF messages.type # "list" THEN Invalid("messages must be a list", -1)
  ELSE IF messages.items = << >> THEN Invalid("messages cannot be empty", -1)
  ELSE IF \E i \in 1..Len(messages.items) : MessageFault(messages.items[i]) # NoneV
    THEN LET i == CHOOSE k \in 1..Len(messages.items) :
                     /\ MessageFault(messages.items[k]) # NoneV
                     /\ \A j \in 1..(k - 1) : MessageFault(messages.items[j]) = NoneV
         IN Invalid(MessageFault(messages.items[i]), i - 1)
  ELSE Valid

\* int(v) for a value that is not an int: a float is truncated toward zero,
\* a string is parsed if it spells a whole number, anything else is a
\* TypeError
IntOf(v) ==
  CASE v.type = "float" ->
         [ok |-> TRUE,
          n |-> IF v.tenths >= 0 THEN v.tenths \div 10 ELSE -((-v.tenths) \div 10)]
    [] v.type = "str" ->
         IF v.tenths % 10 = 0
           THEN [ok |-> TRUE, n |-> v.tenths \div 10]
           ELSE [ok |-> FALSE, n |-> 0]
    [] OTHER -> [ok |-> FALSE, n |-> 0]

\* variant of _validate_max_tokens whose upper limit excludes 200000
ValidateMaxTokensExclusive(max_tokens) ==
  LET c == IF max_tokens.type = "int"
             THEN [ok |-> TRUE, n |-> max_tokens.tenths \div 10]
             ELSE IntOf(max_tokens)
  IN IF ~c.ok THEN [ok |-> FALSE, n |-> 0, error |-> "max_tokens must be an integer"]
     ELSE IF c.n <= 0 THEN [ok |-> FALSE, n |-> c.n, error |-> "max_tokens must be positive"]
     ELSE IF c.n >= 200000 THEN [ok |-> FALSE, n |-> c.n, error |-> "max_tokens too large"]
     ELSE [ok |-> TRUE, n |-> c.n, error |-> NoneV]

\* variant of _validate_max_tokens without the upper limit
ValidateMaxTokensUnbounded(max_tokens) ==
  LET c == IF max_tokens.type = "int"
             THEN [ok |-> TRUE, n |-> max_tokens.tenths \div 10]
             ELSE IntOf(max_tokens)
  IN IF ~c.ok THEN [ok |-> FALSE, n |-> 0, error |-> "max_tokens must be an integer"]
     ELSE IF c.n <= 0 THEN [ok |-> FALSE, n |-> c.n, error |-> "max_tokens must be positive"]
     ELSE [ok |-> TRUE, n |-> c.n, error |-> NoneV]

\* _validate_max_tokens: n is the integer returned
ValidateMaxTokens(max_tokens) ==
  LET c == IF max_tokens.type = "int"
             THEN [ok |-> TRUE, n |-> max_tokens.tenths \div 10]
             ELSE IntOf(max_tokens)
  IN IF ~c.ok THEN [ok |-> FALSE, n |-> 0, error |-> "max_tokens must be an integer"]
     ELSE IF c.n <= 0 THEN [ok |-> FALSE, n |-> c.n, error |-> "max_tokens must be positive"]
     ELSE IF c.n > 200000 THEN [ok |-> FALSE, n |-> c.n, error |-> "max_tokens too large"]
     ELSE [ok |-> TRUE, n |-> c.n, error |-> NoneV]

\* isinstance(v, (int, float)) and 0.0 <= v <= 1.0
UnitNumber(v) == v.type \in {"int", "float"} /\ v.tenths >= 0 /\ v.tenths <= 10

\* isinstance(v, int) and v > 0
PositiveInt(v) == v.type = "int" /\ v.tenths > 0

\* bool(v) of a string, list or tuple, or of None
Truthy(v) == v.type # "NoneType" /\ v.items # << >>

NoPayload ==
  [anthropic_version |-> NoneV, messages |-> PyList(<< >>), max_tokens |-> PyInt(0)]

PayloadError(error, index) ==
  [ok |-> FALSE, payload |-> NoPayload, exc |-> "BedrockValidationError",
   error |-> error, index |-> index]

\* the optional entries of the envelope
OptionalEntries(kw) ==
  LET given(k) == k \in DOMAIN kw /\ kw[k].type # "NoneType"
      keys == {k \in {"temperature", "top_p", "top_k"} : given(k)}
                \cup {k \in {"system", "stop_sequences"} : k \in DOMAIN kw /\ Truthy(kw[k])}
  IN [k \in keys |-> kw[k]]

\* create_bedrock_payload(messages, **kw): the envelope sent to the cloud
\* transport, or the validation failure
CreateBedrockPayload(messages, kw) ==
  LET vm == ValidateMessages(messages)
      vt == ValidateMaxTokens(Get(kw, "max_tokens", PyInt(1000)))
      none == PyNone
      temperature == Get(kw, "temperature", none)
      top_p == Get(kw, "top_p", none)
      top_k == Get(kw, "top_k", none)
      system == Get(kw, "system", none)
      stop_sequences == Get(kw, "stop_sequences", none)
  IN IF ~vm.ok THEN PayloadError(vm.error, vm.index)
     ELSE IF ~vt.ok THEN PayloadError(vt.error, -1)
     ELSE IF temperature.type # "NoneType" /\ ~UnitNumber(temperature)
       THEN PayloadError("temperature must be a number between 0.0 and 1.0", -1)
     ELSE IF top_p.type # "NoneType" /\ ~UnitNumber(top_p)
       THEN PayloadError("top_p must be a number between 0.0 and 1.0", -1)
     ELSE IF top_k.type # "NoneType" /\ ~PositiveInt(top_k)
       THEN PayloadError("top_k must be a positive integer", -1)
     ELSE IF Truthy(system) /\ system.type # "str"
       THEN PayloadError("system must be a string", -1)
     ELSE IF Truthy(stop_sequences) /\ stop_sequences.type # "list"
       THEN PayloadError("stop_sequences must be a list", -1)
     ELSE [ok |-> TRUE,
           payload |-> OptionalEntries(kw) @@
                       [anthropic_version |-> Get(kw, "anthropic_version", "bedrock-2023-05-31"),
                        messages |-> messages,
                        max_tokens |-> PyInt(vt.n)],
           exc |-> NoneV, error |-> NoneV, index |-> -1]

(***************************************************************************)
(* bedrock_adapter.py: _MODEL_MAP and _model_id.  Model names and ids are   *)
(* sequences of characters.                                                 *)
(***************************************************************************)

\* "anthropic."
AnthropicDot ==
  << "a", "n", "t", "h", "r", "o", "p", "i", "c", "." >>

\* the rows of _MODEL_MAP: << name, id >>
ModelMap ==
  { \* claude-3-opus-20240229 -> anthropic.claude-3-opus-20240229-v1:0
    << << "c", "l", "a", "u", "d", "e", "-", "3", "-", "o", "p", "u", "s",
          "-", "2", "0", "2", "4", "0", "2", "2", "9" >>,
       << "a", "n", "t", "h", "r", "o", "p", "i", "c", ".", "c", "l", "a",
          "u", "d", "e", "-", "3", "-", "o", "p", "u", "s", "-", "2", "0",
          "2", "4", "0", "2", "2", "9", "-", "v", "1", ":", "0" >> >>,
    \* claude-3-sonnet-20240229 -> anthropic.claude-3-sonnet-20240229-v1:0
    << << "c", "l", "a", "u", "d", "e", "-", "3", "-", "s", "o", "n", "n",
          "e", "t", "-", "2", "0", "2", "4", "0", "2", "2", "9" >>,
       << "a", "n", "t", "h", "r", "o", "p", "i", "c", ".", "c", "l", "a",
          "u", "d", "e", "-", "3", "-", "s", "o", "n", "n", "e", "t", "-",
          "2", "0", "2", "4", "0", "2", "2", "9", "-", "v", "1", ":", "0" >> >>,
    \* claude-3-haiku-20240307 -> us.anthropic.claude-3-5-haiku-20241022-v1:0
    << << "c", "l", "a", "u", "d", "e", "-", "3", "-", "h", "a", "i", "k",
          "u", "-", "2", "0", "2", "4", "0", "3", "0", "7" >>,
       << "u", "s", ".", "a", "n", "t", "h", "r", "o", "p", "i", "c", ".",
          "c", "l", "a", "u", "d", "e", "-", "3", "-", "5", "-", "h", "a",
          "i", "k", "u", "-", "2", "0", "2", "4", "1", "0", "2", "2", "-",
          "v", "1", ":", "0" >> >>,
    \* claude-3-5-sonnet-20240620 -> anthropic.claude-3-5-sonnet-20240620-v1:0
    << << "c", "l", "a", "u", "d", "e", "-", "3", "-", "5", "-", "s", "o",
          "n", "n", "e", "t", "-", "2", "0", "2", "4", "0", "6", "2", "0" >>,
       << "a", "n", "t", "h", "r", "o", "p", "i", "c", ".", "c", "l", "a",
          "u", "d", "e", "-", "3", "-", "5", "-", "s", "o", "n", "n", "e",
          "t", "-", "2", "0", "2", "4", "0", "6", "2", "0", "-", "v", "1",
          ":", "0" >> >>,
    \* claude-3-5-sonnet-20241022 -> anthropic.claude-3-5-sonnet-20241022-v2:0
    << << "c", "l", "a", "u", "d", "e", "-", "3", "-", "5", "-", "s", "o",
          "n", "n", "e", "t", "-", "2", "0", "2", "4", "1", "0", "2", "2" >>,
       << "a", "n", "t", "h", "r", "o", "p", "i", "c", ".", "c", "l", "a",
          "u", "d", "e", "-", "3", "-", "5", "-", "s", "o", "n", "n", "e",
          "t", "-", "2", "0", "2", "4", "1", "0", "2", "2", "-", "v", "2",
          ":", "0" >> >>,
    \* claude-3-5-haiku-20241022 -> anthropic.claude-3-5-haiku-20241022-v1:0
    << << "c", "l", "a", "u", "d", "e", "-", "3", "-", "5", "-", "h", "a",
          "i", "k", "u", "-", "2", "0", "2", "4", "1", "0", "2", "2" >>,
       << "a", "n", "t", "h", "r", "o", "p", "i", "c", ".", "c", "l", "a",
          "u", "d", "e", "-", "3", "-", "5", "-", "h", "a", "i", "k", "u",
          "-", "2", "0", "2", "4", "1", "0", "2", "2", "-", "v", "1", ":",
          "0" >> >> }

\* variant of _model_id that hands an unmapped name on as it is
ModelIdBare(model_name) ==
  IF \E row \in ModelMap : row[1] = model_name
    THEN (CHOOSE row \in ModelMap : row[1] = model_name)[2]
    ELSE model_name

\* _model_id: _MODEL_MAP.get(model_name, f"anthropic.{model_name}")
ModelId(model_name) ==
  IF \E row \in ModelMap : row[1] = model_name
    THEN (CHOOSE row \in ModelMap : row[1] = model_name)[2]
    ELSE AnthropicDot \o model_name

\* create_anthropic_response: the shim message of a cloud-routed call
CreateAnthropicResponse(text, input_tokens, output_tokens, model, request_id) ==
  [src |-> "bedrock", lacks |-> "nothing", id |-> request_id, model |-> model,
   text |-> text,
   input_tokens |-> input_tokens, output_tokens |-> output_tokens,
   total_tokens |-> input_tokens + output_tokens, stop_reason |-> "end_turn"]

(***************************************************************************)
(* bedrock_adapter.py: BedrockStreamIterator, the decoder of the cloud      *)
(* event stream.                                                            *)
(***************************************************************************)
\* the usage spellings a message_stop chunk may carry (0: not carried)
NoUsage ==
  [inputTokens |-> 0, input_tokens |-> 0, inputTokenCount |-> 0,
   outputTokens |-> 0, output_tokens |-> 0, outputTokenCount |-> 0]
UsageCamel(i, o) == [NoUsage EXCEPT !.inputTokens = i, !.outputTokens = o]
UsageSnake(i, o) == [NoUsage EXCEPT !.input_tokens = i, !.output_tokens = o]
UsageMetrics(i, o) == [NoUsage EXCEPT !.inputTokenCount = i, !.outputTokenCount = o]

\* one event of the vendor stream.  type is the chunk's "type", or how the
\* event is broken: no_chunk / no_bytes (nothing to decode), bad_json (bytes
\* that are not JSON), bad_utf8 (bytes that are not UTF-8), not_object (JSON
\* that is not an object), transport_error (the event stream itself raises).
\* text is the chunk's delta.text, u its usage and invocation metrics.
Event(type, text, u) == [type |-> type, text |-> text, u |-> u]
Delta(text) == Event("content_block_delta", text, NoUsage)
Stop(u) == Event("message_stop", << >>, u)

\* a `or` b `or` c on token counts
Or3(a, b, c) == IF a # 0 THEN a ELSE IF b # 0 THEN b ELSE c

StopInputTokens(u) == Or3(u.inputTokens, u.input_tokens, u.inputTokenCount)
StopOutputTokens(u) == Or3(u.outputTokens, u.output_tokens, u.outputTokenCount)

\* BedrockStreamIterator.__init__
NewIterator ==
  [started |-> FALSE, status |-> "new", events |-> << >>, pos |-> 0,
   accumulated_text |-> << >>, input_tokens |-> 0, output_tokens |-> 0,
   transportCalls |-> 0]

StartOutcomes == {"stream", "no_body", "ClientError", "ImportError"}

\* _start_stream, then _started = True when it returned
StartStream(it, outcome, events) ==
  CASE outcome = "stream" ->
         [it EXCEPT !.started = TRUE, !.status = "open", !.events = events,
                    !.transportCalls = @ + 1]
    [] outcome = "no_body" ->
         [it EXCEPT !.started = TRUE, !.status = "open", !.events = << >>,
                    !.transportCalls = @ + 1]
    [] outcome = "ClientError" -> [it EXCEPT !.transportCalls = @ + 1]
    [] OTHER -> it

\* variant of the decoder that yields the text of any event that has some
EventEffectAnyText(e) ==
  CASE e.type \in {"transport_error", "bad_utf8", "not_object"} -> "raise"
    [] e.type \in {"no_chunk", "no_bytes", "bad_json"} -> "skip"
    [] OTHER -> IF e.text # << >> THEN "yield" ELSE "skip"

\* what one event does to the decoder: "yield" a fragment, "skip" to the
\* next event, or "raise" out of the generator
EventEffect(e) ==
  CASE e.type = "transport_error" -> "raise"
    [] e.type \in {"no_chunk", "no_bytes"} -> "skip"
    [] e.type = "bad_utf8" -> "raise"
    [] e.type = "bad_json" -> "skip"
    [] e.type = "not_object" -> "raise"
    [] e.type = "content_block_delta" -> IF e.text # << >> THEN "yield" ELSE "skip"
    [] OTHER -> "skip"

EventException(e) ==
  CASE e.type = "bad_utf8" -> "UnicodeDecodeError"
    [] e.type = "not_object" -> "AttributeError"
    [] OTHER -> "ClientError"

\* the decoder's fields after event e has been handled
AfterEvent(it, e) ==
  CASE e.type = "content_block_delta" /\ e.text # << >> ->
         [it EXCEPT !.accumulated_text = @ \o e.text]
    [] e.type = "message_stop" ->
         [it EXCEPT !.input_tokens = StopInputTokens(e.u),
                    !.output_tokens = StopOutputTokens(e.u)]
    [] OTHER -> it

\* _process_stream resumed: it runs until it yields, ends or raises
RECURSIVE ProcessStream(_)
ProcessStream(it) ==
  IF it.pos >= Len(it.events)
    THEN [it |-> [it EXCEPT !.status = "exhausted"], out |-> "stop",
          text |-> << >>, exc |-> NoneV]
    ELSE LET e == it.events[it.pos + 1]
             eff == EventEffect(e)
             nxt == [AfterEvent(it, e) EXCEPT !.pos = @ + 1]
         IN CASE eff = "raise" ->
                   [it |-> [nxt EXCEPT !.status = "failed"], out |-> "raise",
                    text |-> << >>, exc |-> EventException(e)]
              [] eff = "yield" ->
                   [it |-> nxt, out |-> "yield", text |-> e.text, exc |-> NoneV]
              [] OTHER -> ProcessStream(nxt)

\* BedrockStreamIterator.__next__ on a started iterator: a generator that
\* has ended or raised only signals StopIteration from then on
IteratorNext(it) ==
  IF it.status = "open"
    THEN ProcessStream(it)
    ELSE [it |-> it, out |-> "stop", text |-> << >>, exc |-> NoneV]

(***************************************************************************)
(* middleware.py: metadata extraction                                       *)
(***************************************************************************)
\* merge_metadata of the core package: the per-call value of a key wins
MergeMetadata(api, ambient) ==
  [k \in MdKeys |-> IF api[k] # NoneV THEN api[k] ELSE ambient[k]]

\* _sanitize_metadata on a flat mapping of str values: str keys and str
\* values are kept as they are
SanitizeMetadata(md) == [k \in DOMAIN md |-> md[k]]

\* variant that reads usage_metadata and leaves it in the call parameters
KeepUsageMetadata(kw) == kw

\* kwargs.pop("usage_metadata", {})
PopUsageMetadata(kw) == Without(kw, "usage_metadata")

ExtractUsageMetadataAndTiming(kw, ambient) ==
  LET given == Get(kw, "usage_metadata", UmDict(EmptyMd))
      api == IF given.isdict THEN given.d ELSE EmptyMd
  IN [kwargs |-> PopUsageMetadata(kw),
      usage_metadata |-> SanitizeMetadata(MergeMetadata(api, ambient)),
      log |-> IF given.isdict THEN << >> ELSE << "warn_metadata_not_dict" >>]

\* finish_reason_map.get(reason, "end_turn")
FinishReason(stop_reason) ==
  CASE stop_reason = "end_turn" -> "END"
    [] stop_reason = "tool_use" -> "END_SEQUENCE"
    [] stop_reason = "max_tokens" -> "TOKEN_LIMIT"
    [] stop_reason = "content_filter" -> "ERROR"
    [] OTHER -> "end_turn"

(***************************************************************************)
(* The usage event a metering coroutine passes to create_completion.  The  *)
(* coroutine is a closure over values fixed when it is created, so the     *)
(* event is determined at that moment.                                      *)
(***************************************************************************)
NoEvent ==
  [provider |-> NoneV, model_source |-> NoneV, model |-> NoneV,
   input_token_count |-> 0, output_token_count |-> 0, total_token_count |-> 0,
   stop_reason |-> NoneV, transaction_id |-> NoneV, trace_id |-> NoneV,
   organization_id |-> NoneV, is_streamed |-> FALSE]

\* variant of the usage event whose total counts the input tokens only
DirectEventTotalIsInput(resp, md, provider, streamed) ==
  [provider |-> GetProviderMetadata(provider).provider,
   model_source |-> GetProviderMetadata(provider).model_source,
   model |-> resp.model,
   input_token_count |-> resp.input_tokens,
   output_token_count |-> resp.output_tokens,
   total_token_count |-> resp.input_tokens,
   stop_reason |-> FinishReason(resp.stop_reason),
   transaction_id |-> resp.id,
   trace_id |-> md["trace_id"],
   organization_id |-> md["organization_id"],
   is_streamed |-> streamed]

\* create_wrapper.metering_call and StreamWrapper.__exit__.metering_call
DirectEvent(resp, md, provider, streamed) ==
  [provider |-> GetProviderMetadata(provider).provider,
   model_source |-> GetProviderMetadata(provider).model_source,
   model |-> resp.model,
   input_token_count |-> resp.input_tokens,
   output_token_count |-> resp.output_tokens,
   total_token_count |-> resp.input_tokens + resp.output_tokens,
   stop_reason |-> FinishReason(resp.stop_reason),
   transaction_id |-> resp.id,
   trace_id |-> md["trace_id"],
   organization_id |-> md["organization_id"],
   is_streamed |-> streamed]

\* _create_bedrock_metering_call.metering_call
BedrockEvent(resp, md) ==
  [provider |-> GetProviderMetadata("BEDROCK").provider,
   model_source |-> GetProviderMetadata("BEDROCK").model_source,
   model |-> resp.model,
   input_token_count |-> resp.input_tokens,
   output_token_count |-> resp.output_tokens,
   total_token_count |-> resp.total_tokens,
   stop_reason |-> "END",
   transaction_id |-> resp.id,
   trace_id |-> md["trace_id"],
   organization_id |-> md["organization_id"],
   is_streamed |-> FALSE]

NewCoro(c, kind, event) ==
  [call |-> c, kind |-> kind, event |-> event, pc |-> "scheduled",
   log |-> << >>, sent |-> FALSE, result |-> NoneV, escaped |-> FALSE]

\* variant of the scheduling helper that never looks at the shutdown signal
SafeRunAsyncUnchecked(isShutdown, cs, coro) ==
  [coros |-> Append(cs, coro), log |-> << "debug_thread_started" >>]

\* _safe_run_async_in_thread: the coroutine is handed to the background
\* runner unless the shutdown signal is set
SafeRunAsyncInThread(isShutdown, cs, coro) ==
  IF isShutdown
    THEN [coros |-> cs, log |-> << "warn_skip_async_shutdown" >>]
    ELSE [coros |-> Append(cs, coro), log |-> << "debug_thread_started" >>]

(***************************************************************************)
(* State of the interception layer.                                         *)
(***************************************************************************)
VARIABLES
  env,        \* ambient configuration: REVENIUM_BEDROCK_DISABLE, decorator metadata
  live,       \* the calls this behaviour makes
  call,       \* per intercepted call: position, arguments, route, histories, outcome
  coros,      \* metering coroutines handed to run_async_in_thread; sent and
              \* result record the create_completion call each one made
  dec,        \* a BedrockStreamIterator driven on its own over a vendor stream
  probe,      \* a stateless function of the library called on its own: its
              \* arguments and the outcomes of the calls made so far
  shutdown    \* shutdown_event

callVars == << env, live, call, coros, shutdown >>

\* the iterator before a stream is given to it
\* no function is being called on its own
NoProbe == [fn |-> NoneV]

IdleDecoder ==
  [wire |-> << >>, it |-> NewIterator, yielded |-> << >>, ended |-> FALSE,
   repulled |-> FALSE, err |-> NoneV]

NoResult == [kind |-> "none", resp |-> NoResponse, exc |-> NoneV, origin |-> NoneV]
Returned(resp) == [kind |-> "returned", resp |-> resp, exc |-> NoneV, origin |-> NoneV]
ReturnedStream(wrapper) == [kind |-> "stream", resp |-> NoResponse, exc |-> wrapper, origin |-> NoneV]
Raised(exc, origin) == [kind |-> "raised", resp |-> NoResponse, exc |-> exc, origin |-> origin]


\* a stream handle returned to the caller.  kind "direct" is StreamWrapper
\* around the provider's stream manager (chunks, under_final and
\* under_final_raises are what that manager will produce); kind "bedrock" is
\* BedrockStreamWrapper (it is its BedrockStreamIterator).
NoStream ==
  [kind |-> NoneV, entered |-> FALSE, exits |-> 0, finals |-> 0, pulls |-> 0, stops |-> 0,
   chunks |-> << >>, pos |-> 0, under_final |-> NoResponse, under_final_raises |-> FALSE,
   it |-> NewIterator, accumulated_text |-> << >>, response_id |-> NoneV, created |-> 0,
   final_message |-> NoResponse, first_token_at |-> 0,
   yielded |-> << >>, got_final |-> << >>, surfaced |-> {}]

IdleCall ==
  [pc |-> "idle", op |-> NoneV, given |-> BaseKw, client |-> NoClient,
   kwargs |-> BaseKw, usage_metadata |-> EmptyMd,
   provider |-> NoneV, detections |-> 0,
   cloudAttempts |-> 0, cloudFailed |-> NoneV, cloudCalls |-> << >>,
   directCalls |-> << >>, response |-> NoResponse,
   submissions |-> 0, result |-> NoResult, log |-> << >>,
   stream |-> NoStream]

\* variant in which the merged metadata is kept in one place shared by all
\* calls instead of a local of the wrapper: storing it for one call replaces
\* what every other call goes on to read
SetCallSharedMetadata(c, r) ==
  [d \in CallIds |->
     IF d = c THEN r ELSE [call[d] EXCEPT !.usage_metadata = r.usage_metadata]]

SetCall(c, r) == [call EXCEPT ![c] = r]

InitCalls ==
  /\ env \in [bedrock_disable : BOOLEAN, ambient : {EmptyMd, MdAmbient}]
  /\ live = {"c1"}
  /\ call = [c \in CallIds |-> IdleCall]
  /\ coros = << >>
  /\ shutdown = FALSE
  /\ dec = IdleDecoder
  /\ probe = NoProbe

(***************************************************************************)
(* The caller invokes client.messages.create or client.messages.stream.   *)
(***************************************************************************)
Invoke(c, op, kw, client) ==
  /\ c \in live
  /\ call[c].pc = "idle"
  /\ call' = SetCall(c, [call[c] EXCEPT !.pc = "called", !.op = op, !.given = kw,
                                        !.kwargs = kw, !.client = client])
  /\ UNCHANGED << probe, dec, env, live, coros, shutdown >>

\* extract_usage_metadata_and_timing(kwargs, ...)
Extract(c) ==
  /\ call[c].pc = "called"
  /\ LET x == ExtractUsageMetadataAndTiming(call[c].kwargs, env.ambient)
     IN call' = SetCall(c, [call[c] EXCEPT !.pc = "extracted",
                                           !.kwargs = x.kwargs,
                                           !.usage_metadata = x.usage_metadata,
                                           !.log = @ \o x.log])
  /\ UNCHANGED << probe, dec, env, live, coros, shutdown >>

\* variant of the provider decision that does not look at REVENIUM_BEDROCK_DISABLE
DecideProviderAlwaysDetects(disabled, client, kw) ==
  [provider |-> DetectProvider(client, Get(kw, "base_url", NoUrl)), detections |-> 1]

\* the provider decision of create_wrapper / stream_wrapper
DecideProvider(disabled, client, kw) ==
  IF disabled
    THEN [provider |-> "ANTHROPIC", detections |-> 0]
    ELSE [provider |-> DetectProvider(client, Get(kw, "base_url", NoUrl)), detections |-> 1]

Decide(c) ==
  /\ call[c].pc = "extracted"
  /\ LET d == DecideProvider(env.bedrock_disable, call[c].client, call[c].kwargs)
     IN call' = SetCall(c, [call[c] EXCEPT !.pc = "route",
                                           !.provider = d.provider,
                                           !.detections = @ + d.detections])
  /\ UNCHANGED << probe, dec, env, live, coros, shutdown >>

(***************************************************************************)
(* create_wrapper: cloud route (_handle_bedrock_request) with fallback.     *)
(***************************************************************************)
CloudOutcomes == {"ok", "BedrockInvokeError", "ImportError", "Exception"}

\* the log line of the except clause that catches a cloud-route failure
FallbackLog(exc) ==
  CASE exc \in {"BedrockValidationError", "BedrockInvokeError", "BedrockStreamError"}
         -> "error_bedrock_failed_fallback"
    [] exc = "ImportError" -> "error_bedrock_deps_fallback"
    [] OTHER -> "error_bedrock_unexpected_fallback"

\* variant of the except clauses reached after the cloud handler had already
\* handed its usage event to the scheduling helper
CreateFallbackAfterSubmission(r, exc) ==
  [r EXCEPT !.pc = "direct", !.provider = "ANTHROPIC", !.cloudFailed = exc,
            !.submissions = @ + 1,
            !.log = Append(@, FallbackLog(exc))]

\* variant of the except clauses that classifies the call a second time
CreateFallbackRedetects(r, exc) ==
  [r EXCEPT !.pc = "direct",
            !.provider = DetectProvider(r.client, Get(r.kwargs, "base_url", NoUrl)),
            !.detections = @ + 1, !.cloudFailed = exc,
            !.log = Append(@, FallbackLog(exc))]

\* variant of the except clauses that lets the cloud-route failure out
CreateFallbackReraises(r, exc) ==
  [r EXCEPT !.pc = "done", !.cloudFailed = exc, !.result = Raised(exc, "cloud")]

\* variant of the except clauses that leaves the detected provider in place
CreateFallbackKeepsProvider(r, exc) ==
  [r EXCEPT !.pc = "direct", !.cloudFailed = exc,
            !.log = Append(@, FallbackLog(exc))]

\* what the except clauses of create_wrapper do with a cloud-route failure
CreateFallback(r, exc) ==
  [r EXCEPT !.pc = "direct", !.provider = "ANTHROPIC", !.cloudFailed = exc,
            !.log = Append(@, FallbackLog(exc))]

BedrockMessageId(c) == "msg_bedrock"

CloudCreate(c, out) ==
  /\ call[c].pc = "route"
  /\ call[c].op = "create"
  /\ call[c].provider = "BEDROCK"
  /\ LET r == [call[c] EXCEPT !.cloudAttempts = @ + 1]
         kw == r.kwargs
         pl == CreateBedrockPayload(Get(kw, "messages", MsgsEmpty), Without(kw, "messages"))
         model == Get(kw, "model", "claude-3-sonnet-20240229")
     IN IF ~pl.ok
          THEN /\ call' = SetCall(c, CreateFallback(r, "BedrockValidationError"))
               /\ UNCHANGED coros
        ELSE IF out = "ImportError"
          THEN /\ call' = SetCall(c, CreateFallback(r, out))
               /\ UNCHANGED coros
        ELSE IF out \in {"BedrockInvokeError", "Exception"}
          THEN /\ call' = SetCall(c, CreateFallback(
                              [r EXCEPT !.cloudCalls = Append(@, pl.payload)], out))
               /\ UNCHANGED coros
        ELSE LET resp == CreateAnthropicResponse(TextHi, 12, 7, model, BedrockMessageId(c))
                 sub == SafeRunAsyncInThread(shutdown, coros,
                          NewCoro(c, "bedrock_create", BedrockEvent(resp, r.usage_metadata)))
             IN /\ coros' = sub.coros
                /\ call' = SetCall(c, [r EXCEPT !.pc = "done",
                                                !.cloudCalls = Append(@, pl.payload),
                                                !.response = resp,
                                                !.submissions = @ + 1,
                                                !.log = @ \o sub.log,
                                                !.result = Returned(resp)])
  /\ UNCHANGED << probe, dec, env, live, shutdown >>

(***************************************************************************)
(* create_wrapper: direct route.                                            *)
(***************************************************************************)
\* reading id, usage, the cache token counts and stop_reason off the
\* response: an attribute the object lacks raises AttributeError
ReadsOk(resp) == resp.lacks = "nothing"

\* variant of lines 440-590 that joins the metering thread before returning
AfterDirectCreateJoined(r, c, resp, isShutdown, cs) ==
  IF ReadsOk(resp)
    THEN LET co == NewCoro(c, "create", DirectEvent(resp, r.usage_metadata, r.provider, FALSE))
             ran == [co EXCEPT !.pc = "done", !.sent = TRUE, !.result = "resource",
                               !.log = << "debug_result", "debug_success" >>]
             sub == SafeRunAsyncInThread(isShutdown, cs, ran)
         IN [call |-> [r EXCEPT !.pc = "done", !.response = resp,
                                !.submissions = @ + 1,
                                !.log = @ \o sub.log,
                                !.result = Returned(resp)],
             coros |-> sub.coros]
    ELSE [call |-> [r EXCEPT !.pc = "done", !.response = resp,
                             !.result = Raised("AttributeError", "wrapper")],
          coros |-> cs]

\* lines 440-590 once the wrapped call has returned resp
AfterDirectCreate(r, c, resp, isShutdown, cs) ==
  IF ReadsOk(resp)
    THEN LET sub == SafeRunAsyncInThread(isShutdown, cs,
                      NewCoro(c, "create", DirectEvent(resp, r.usage_metadata, r.provider, FALSE)))
         IN [call |-> [r EXCEPT !.pc = "done", !.response = resp,
                                !.submissions = @ + 1,
                                !.log = @ \o sub.log,
                                !.result = Returned(resp)],
             coros |-> sub.coros]
    ELSE [call |-> [r EXCEPT !.pc = "done", !.response = resp,
                             !.result = Raised("AttributeError", "wrapper")],
          coros |-> cs]

DirectCreateReturns(c, resp) ==
  /\ call[c].op = "create"
  /\ \/ call[c].pc = "route" /\ call[c].provider = "ANTHROPIC"
     \/ call[c].pc = "direct"
  /\ LET r == [call[c] EXCEPT !.directCalls = Append(@, call[c].kwargs)]
         a == AfterDirectCreate(r, c, resp, shutdown, coros)
     IN /\ call' = SetCall(c, a.call)
        /\ coros' = a.coros
  /\ UNCHANGED << probe, dec, env, live, shutdown >>

\* the provider transport's own error propagates unmodified
DirectCreateRaises(c) ==
  /\ call[c].op = "create"
  /\ \/ call[c].pc = "route" /\ call[c].provider = "ANTHROPIC"
     \/ call[c].pc = "direct"
  /\ call' = SetCall(c, [call[c] EXCEPT !.pc = "done",
                                        !.directCalls = Append(@, call[c].kwargs),
                                        !.result = Raised("APIError", "direct")])
  /\ UNCHANGED << probe, dec, env, live, coros, shutdown >>

(***************************************************************************)
(* stream_wrapper: routing.                                                 *)
(***************************************************************************)
\* variant of the cloud stream route that goes on to the direct transport
\* after the handler has returned its wrapper
StreamOpenCloudFallsThrough(c) ==
  /\ call[c].pc = "route"
  /\ call[c].op = "stream"
  /\ call[c].provider = "BEDROCK"
  /\ LET r == [call[c] EXCEPT !.cloudAttempts = @ + 1]
         kw == r.kwargs
         pl == CreateBedrockPayload(Get(kw, "messages", MsgsEmpty), Without(kw, "messages"))
     IN IF ~pl.ok
          THEN call' = SetCall(c, [r EXCEPT !.pc = "direct",
                                            !.cloudFailed = "BedrockValidationError",
                                            !.log = Append(@, FallbackLog("BedrockValidationError"))])
          ELSE call' = SetCall(c, [r EXCEPT !.pc = "direct"])
  /\ UNCHANGED << probe, dec, env, live, coros, shutdown >>

\* _handle_bedrock_stream_request inside the try of stream_wrapper: the
\* payload is validated, nothing is sent yet
StreamOpenCloud(c) ==
  /\ call[c].pc = "route"
  /\ call[c].op = "stream"
  /\ call[c].provider = "BEDROCK"
  /\ LET r == [call[c] EXCEPT !.cloudAttempts = @ + 1]
         kw == r.kwargs
         pl == CreateBedrockPayload(Get(kw, "messages", MsgsEmpty), Without(kw, "messages"))
     IN IF ~pl.ok
          THEN call' = SetCall(c, [r EXCEPT !.pc = "direct",
                                            !.cloudFailed = "BedrockValidationError",
                                            !.log = Append(@, FallbackLog("BedrockValidationError"))])
          ELSE call' = SetCall(c, [r EXCEPT !.pc = "streaming",
                                            !.result = ReturnedStream("BedrockStreamWrapper"),
                                            !.stream = [NoStream EXCEPT !.kind = "bedrock"]])
  /\ UNCHANGED << probe, dec, env, live, coros, shutdown >>

DirectChunkScripts == { << << >>, TextHi >> }
UnderFinals == { DirectResponse("nothing", "end_turn"), DirectResponse("usage", "end_turn") }

StreamOpenDirectReturns(c, chunks, fin, finRaises) ==
  /\ call[c].op = "stream"
  /\ \/ call[c].pc = "route" /\ call[c].provider = "ANTHROPIC"
     \/ call[c].pc = "direct"
  /\ call' = SetCall(c, [call[c] EXCEPT
                 !.pc = "streaming",
                 !.directCalls = Append(@, call[c].kwargs),
                 !.result = ReturnedStream("StreamWrapper"),
                 !.stream = [NoStream EXCEPT !.kind = "direct", !.chunks = chunks,
                                             !.under_final = fin,
                                             !.under_final_raises = finRaises]])
  /\ UNCHANGED << probe, dec, env, live, coros, shutdown >>

StreamOpenDirectRaises(c) ==
  /\ call[c].op = "stream"
  /\ \/ call[c].pc = "route" /\ call[c].provider = "ANTHROPIC"
     \/ call[c].pc = "direct"
  /\ call' = SetCall(c, [call[c] EXCEPT !.pc = "done",
                                        !.directCalls = Append(@, call[c].kwargs),
                                        !.result = Raised("APIError", "direct")])
  /\ UNCHANGED << probe, dec, env, live, coros, shutdown >>

(***************************************************************************)
(* The caller drives the stream handle.                                     *)
(***************************************************************************)
Surfaced(op, exc, origin) == [op |-> op, exc |-> exc, origin |-> origin]

\* __enter__ of either wrapper
StreamEntered(st) ==
  IF st.kind = "bedrock"
    THEN [st EXCEPT !.entered = TRUE, !.it = NewIterator]
    ELSE [st EXCEPT !.entered = TRUE]

Enter(c) ==
  /\ call[c].pc = "streaming"
  /\ ~call[c].stream.entered
  /\ call' = SetCall(c, [call[c] EXCEPT !.stream = StreamEntered(@)])
  /\ UNCHANGED << probe, dec, env, live, coros, shutdown >>

\* variant of the first-token test that takes the time of every fragment
FirstTokenAtLatest(st, chunk) ==
  IF chunk # << >>
    THEN Len(st.yielded) + 1
    ELSE st.first_token_at

\* time.time() when the fragment about to be returned is the first non-empty
\* one; time is counted in fragments returned, 0 is first_token_time None
FirstTokenAt(st, chunk) ==
  IF st.first_token_at = 0 /\ chunk # << >>
    THEN Len(st.yielded) + 1
    ELSE st.first_token_at

\* int(self.first_token_time - self.request_start_time) if
\* self.first_token_time else 0, the request having started at time 0
TimeToFirstToken(st) == IF st.first_token_at # 0 THEN st.first_token_at ELSE 0

\* StreamWrapper.text_stream.__next__ when the provider's stream answers
DirectTextStreamNext(st) ==
  IF st.pos < Len(st.chunks)
    THEN LET chunk == st.chunks[st.pos + 1]
         IN [st EXCEPT !.pos = @ + 1, !.pulls = @ + 1,
                       !.first_token_at = FirstTokenAt(st, chunk),
                       !.yielded = Append(@, chunk)]
    ELSE [st EXCEPT !.pulls = @ + 1, !.stops = @ + 1]

PullDirect(c) ==
  /\ call[c].pc = "streaming"
  /\ call[c].stream.kind = "direct"
  /\ call[c].stream.entered
  /\ call[c].stream.exits = 0
  /\ call[c].stream.pulls < MaxPulls
  /\ call' = SetCall(c, [call[c] EXCEPT !.stream = DirectTextStreamNext(@)])
  /\ UNCHANGED << probe, dec, env, live, coros, shutdown >>

\* the provider's own stream fails while a fragment is pulled
PullDirectRaises(c) ==
  /\ call[c].pc = "streaming"
  /\ call[c].stream.kind = "direct"
  /\ call[c].stream.entered
  /\ call[c].stream.exits = 0
  /\ call[c].stream.pulls < MaxPulls
  /\ LET st == call[c].stream
     IN call' = SetCall(c, [call[c] EXCEPT
                   !.stream = [st EXCEPT !.pulls = @ + 1,
                                         !.pos = Len(st.chunks),
                                         !.surfaced = @ \cup {Surfaced("next", "APIError", "direct")}]])
  /\ UNCHANGED << probe, dec, env, live, coros, shutdown >>

BedrockStreamMessageId(text, n) == << "msg_bedrock_stream", text, n >>

\* variant of _create_final_message that builds a message on every trigger
CreateFinalMessageEveryTime(st, model) ==
  LET rid == BedrockStreamMessageId(st.accumulated_text, st.created + 1)
  IN [st EXCEPT !.response_id = rid,
                !.created = @ + 1,
                !.final_message =
                   [CreateAnthropicResponse(st.accumulated_text, st.it.input_tokens,
                                            st.it.output_tokens, model, rid)
                      EXCEPT !.src = "bedrock_stream"]]

\* BedrockStreamWrapper._create_final_message
CreateFinalMessage(st, model) ==
  IF st.final_message # NoResponse
    THEN st
    ELSE LET rid == BedrockStreamMessageId(st.accumulated_text, st.created + 1)
         IN [st EXCEPT !.response_id = rid,
                       !.created = @ + 1,
                       !.final_message =
                          [CreateAnthropicResponse(st.accumulated_text, st.it.input_tokens,
                                                   st.it.output_tokens, model, rid)
                             EXCEPT !.src = "bedrock_stream"]]

EventScripts ==
  { << Delta(<< >>), Delta(TextHi), Stop(UsageCamel(10, 5)) >>,
    << Delta(<< "h" >>), Event("transport_error", << >>, NoUsage) >> }

\* BedrockStreamWrapper.text_stream.__next__; outcome and events are what
\* the cloud transport answers if this pull starts the stream
CloudTextStreamNext(st, model, outcome, events) ==
  LET it0 == IF st.it.started THEN st.it ELSE StartStream(st.it, outcome, events)
      pulled == [st EXCEPT !.pulls = @ + 1]
  IN IF ~it0.started
       THEN [pulled EXCEPT !.it = it0,
                           !.surfaced = @ \cup {Surfaced("next", outcome, "cloud")}]
       ELSE LET r == IteratorNext(it0)
            IN CASE r.out = "yield" ->
                      [pulled EXCEPT !.it = r.it,
                                     !.first_token_at = FirstTokenAt(st, r.text),
                                     !.accumulated_text = @ \o r.text,
                                     !.yielded = Append(@, r.text)]
                 [] r.out = "stop" ->
                      [CreateFinalMessage([pulled EXCEPT !.it = r.it], model)
                         EXCEPT !.stops = @ + 1]
                 [] OTHER ->
                      [pulled EXCEPT !.it = r.it,
                                     !.surfaced = @ \cup {Surfaced("next", r.exc, "cloud")}]

ModelOf(r) == Get(r.kwargs, "model", "claude-3-sonnet-20240229")

PullCloud(c, outcome, events) ==
  /\ call[c].pc = "streaming"
  /\ call[c].stream.kind = "bedrock"
  /\ call[c].stream.entered
  /\ call[c].stream.exits = 0
  /\ call[c].stream.pulls < MaxPulls
  /\ call' = SetCall(c, [call[c] EXCEPT
                 !.stream = CloudTextStreamNext(@, ModelOf(call[c]), outcome, events)])
  /\ UNCHANGED << probe, dec, env, live, coros, shutdown >>

\* get_final_message of either wrapper
GotFinalMessage(st, model) ==
  IF st.kind = "bedrock"
    THEN LET f == CreateFinalMessage(st, model)
         IN [f EXCEPT !.finals = @ + 1, !.got_final = Append(@, f.final_message)]
  ELSE IF st.final_message # NoResponse
    THEN [st EXCEPT !.finals = @ + 1, !.got_final = Append(@, st.final_message)]
  ELSE IF st.under_final_raises
    THEN [st EXCEPT !.finals = @ + 1,
                    !.surfaced = @ \cup {Surfaced("get_final_message", "APIError", "direct")}]
  ELSE [st EXCEPT !.finals = @ + 1, !.got_final = Append(@, st.under_final)]

GetFinal(c) ==
  /\ call[c].pc = "streaming"
  /\ call[c].stream.entered
  /\ call[c].stream.exits = 0
  /\ call[c].stream.finals < MaxFinals
  /\ call' = SetCall(c, [call[c] EXCEPT !.stream = GotFinalMessage(@, ModelOf(call[c]))])
  /\ UNCHANGED << probe, dec, env, live, coros, shutdown >>

\* BedrockStreamWrapper._send_metering_data.metering_call
BedrockStreamEvent(st, md) ==
  [provider |-> GetProviderMetadata("BEDROCK").provider,
   model_source |-> GetProviderMetadata("BEDROCK").model_source,
   model |-> st.final_message.model,
   input_token_count |-> st.final_message.input_tokens,
   output_token_count |-> st.final_message.output_tokens,
   total_token_count |-> st.final_message.input_tokens + st.final_message.output_tokens,
   stop_reason |-> "END",
   transaction_id |-> st.response_id,
   trace_id |-> md["trace_id"],
   organization_id |-> md["organization_id"],
   is_streamed |-> TRUE,
   time_to_first_token |-> TimeToFirstToken(st)]

\* BedrockStreamWrapper.__exit__: the final message is created if there is
\* none, then _send_metering_data checks the shutdown signal and submits
BedrockStreamExit(r, c, isShutdown, cs) ==
  LET st == [CreateFinalMessage(r.stream, ModelOf(r)) EXCEPT !.exits = @ + 1]
  IN IF isShutdown
       THEN [call |-> [r EXCEPT !.stream = st, !.submissions = @ + 1,
                                !.log = Append(@, "warn_skip_metering_shutdown")],
             coros |-> cs]
       ELSE LET sub == SafeRunAsyncInThread(isShutdown, cs,
                         NewCoro(c, "bedrock_stream", BedrockStreamEvent(st, r.usage_metadata)))
            IN [call |-> [r EXCEPT !.stream = st, !.submissions = @ + 1,
                                   !.log = @ \o sub.log],
                coros |-> sub.coros]

\* StreamWrapper.__exit__: the provider's context is left, then the final
\* message is fetched and metered inside a try that swallows every failure
DirectStreamExit(r, c, isShutdown, cs) ==
  LET st == [r.stream EXCEPT !.exits = @ + 1]
  IN IF st.under_final_raises \/ ~ReadsOk(st.under_final)
       THEN [call |-> [r EXCEPT
                         !.stream = IF st.under_final_raises
                                      THEN st
                                      ELSE [st EXCEPT !.final_message = st.under_final],
                         !.log = Append(@, "warn_final_message_error")],
             coros |-> cs]
       ELSE LET sub == SafeRunAsyncInThread(isShutdown, cs,
                         NewCoro(c, "stream",
                                 DirectEvent(st.under_final, r.usage_metadata, "ANTHROPIC", TRUE)
                                   @@ [time_to_first_token |-> TimeToFirstToken(st)]))
            IN [call |-> [r EXCEPT !.stream = [st EXCEPT !.final_message = st.under_final],
                                   !.submissions = @ + 1,
                                   !.log = @ \o sub.log],
                coros |-> sub.coros]

StreamExit(r, c, isShutdown, cs) ==
  IF r.stream.kind = "bedrock"
    THEN BedrockStreamExit(r, c, isShutdown, cs)
    ELSE DirectStreamExit(r, c, isShutdown, cs)

ExitStream(c) ==
  /\ call[c].pc = "streaming"
  /\ call[c].stream.entered
  /\ call[c].stream.exits < MaxExits
  /\ LET x == StreamExit(call[c], c, shutdown, coros)
     IN /\ call' = SetCall(c, x.call)
        /\ coros' = x.coros
  /\ UNCHANGED << probe, dec, env, live, shutdown >>

(***************************************************************************)
(* The metering coroutines, run by the background runner.                   *)
(***************************************************************************)
BackendResults == {"resource", "status_500", "none", "raise"}

\* variant of the coroutines' first statement that never looks at the signal
CoroStartedUnchecked(co, isShutdown) == [co EXCEPT !.pc = "calling"]

\* the first statement of every metering_call: the shutdown check
CoroStarted(co, isShutdown) ==
  IF isShutdown
    THEN [co EXCEPT !.pc = "done", !.log = Append(@, "warn_skip_metering_shutdown")]
    ELSE [co EXCEPT !.pc = "calling"]

\* variant of the coroutines' logging that ignores the shutdown signal
CoroLogUnconditional(kind, res, isShutdown) ==
  IF res = "raise"
    THEN << "warn_metering_error", "warn_traceback" >>
  ELSE IF kind \in {"create", "stream"}
    THEN IF res \in {"resource", "status_200"}
           THEN << "debug_result", "debug_success" >>
           ELSE << "debug_result", "warn_no_success" >>
  ELSE << "debug_result" >>

\* what a metering_call logs once create_completion has answered
\* (res = "raise": it raised, and the except clause runs)
CoroLog(kind, res, isShutdown) ==
  IF res = "raise"
    THEN IF isShutdown THEN << >> ELSE << "warn_metering_error", "warn_traceback" >>
  ELSE IF kind \in {"create", "stream"}
    THEN IF res \in {"resource", "status_200"}
           THEN << "debug_result", "debug_success" >>
           ELSE << "debug_result", "warn_no_success" >>
  ELSE << "debug_result" >>

CoroFinished(co, res, isShutdown) ==
  [co EXCEPT !.pc = "done", !.sent = TRUE, !.result = res,
             !.log = @ \o CoroLog(co.kind, res, isShutdown),
             !.escaped = FALSE]

CoroStart(k) ==
  /\ k \in 1..Len(coros)
  /\ coros[k].pc = "scheduled"
  /\ coros' = [coros EXCEPT ![k] = CoroStarted(@, shutdown)]
  /\ UNCHANGED << probe, dec, env, live, call, shutdown >>

CoroCall(k, res) ==
  /\ k \in 1..Len(coros)
  /\ coros[k].pc = "calling"
  /\ coros' = [coros EXCEPT ![k] = CoroFinished(@, res, shutdown)]
  /\ UNCHANGED << probe, dec, env, live, call, shutdown >>

(***************************************************************************)
(* The process-wide shutdown signal.                                        *)
(***************************************************************************)
SetShutdown ==
  /\ ~shutdown
  /\ shutdown' = TRUE
  /\ UNCHANGED << probe, dec, env, live, call, coros >>

ClearShutdown ==
  /\ shutdown
  /\ shutdown' = FALSE
  /\ UNCHANGED << probe, dec, env, live, call, coros >>

(***************************************************************************)
(* BedrockStreamIterator alone: every vendor stream of up to MaxEvents     *)
(* events is decoded by pulling the iterator until it ends or raises.      *)
(***************************************************************************)
EventSet ==
  { Delta(<< "h" >>), Delta(<< "i" >>), Delta(<< >>),
    Stop(UsageCamel(10, 5)), Stop(UsageSnake(7, 3)),
    Event("message_stop", TextHi, UsageMetrics(4, 2)),
    Event("content_block_start", << "x" >>, UsageCamel(9, 9)),
    Event("ping", << "y" >>, NoUsage),
    Event("no_chunk", << >>, NoUsage), Event("bad_json", << >>, NoUsage),
    Event("bad_utf8", << >>, NoUsage), Event("transport_error", << >>, NoUsage) }

Wires == UNION { [1..n -> EventSet] : n \in 0..MaxEvents }

InitDecoder ==
  /\ env = [bedrock_disable |-> FALSE, ambient |-> EmptyMd]
  /\ live = {}
  /\ call = [c \in CallIds |-> IdleCall]
  /\ coros = << >>
  /\ shutdown = FALSE
  /\ dec \in {[IdleDecoder EXCEPT !.wire = w] : w \in Wires}
  /\ probe = NoProbe

\* BedrockStreamIterator.__next__ while the generator is running (the first
\* call opens the vendor stream)
DecoderPull ==
  /\ ~dec.ended /\ dec.err = NoneV
  /\ LET it == IF dec.it.started THEN dec.it ELSE StartStream(dec.it, "stream", dec.wire)
         r == IteratorNext(it)
     IN dec' = CASE r.out = "yield" ->
                      [dec EXCEPT !.it = r.it, !.yielded = Append(@, r.text)]
                 [] r.out = "raise" -> [dec EXCEPT !.it = r.it, !.err = r.exc]
                 [] OTHER -> [dec EXCEPT !.it = r.it, !.ended = TRUE]
  /\ UNCHANGED << probe, callVars >>

\* BedrockStreamIterator.__next__ once the generator has ended or raised
DecoderPullAgain ==
  /\ dec.ended \/ dec.err # NoneV
  /\ ~dec.repulled
  /\ LET r == IteratorNext(dec.it)
     IN dec' = CASE r.out = "yield" ->
                      [dec EXCEPT !.it = r.it, !.repulled = TRUE,
                                  !.yielded = Append(@, r.text)]
                 [] r.out = "raise" ->
                      [dec EXCEPT !.it = r.it, !.repulled = TRUE, !.err = r.exc]
                 [] OTHER -> [dec EXCEPT !.it = r.it, !.repulled = TRUE, !.ended = TRUE]
  /\ UNCHANGED << probe, callVars >>

NextDecoder == DecoderPull \/ DecoderPullAgain

(***************************************************************************)
(* detect_provider called on its own, on a client and a base_url argument.  *)
(***************************************************************************)
AwsSpellings ==
  { AmazonAwsCom, AmazonAwsMixed,
    << "A", "M", "A", "Z", "O", "N", "A", "W", "S", ".", "C", "O", "M" >> }
AwsNearMisses ==
  { << "a", "m", "a", "z", "o", "n", "a", "w", "s", ".", "c", "o" >>,
    << "a", "m", "a", "z", "o", "n", "a", "w", "s", "-", "c", "o", "m" >>,
    << "a", "m", "a", "z", "o", "n", ".", "a", "w", "s", ".", "c", "o", "m" >> }
UrlPrefixes == { << >>, RegionHost }
UrlSuffixes == { << >>, << "/", "v", "1" >> }
ProbeUrls ==
  { NoUrl, UrlAnthropic }
    \cup { p \o m \o x : p \in UrlPrefixes, m \in AwsSpellings \cup AwsNearMisses,
                           x \in UrlSuffixes }
ProbeClients ==
  { NoClient }
    \cup { Client(hm, sm, sn, hb, u) :
             hm \in BOOLEAN, sm \in {"absent", "no_name", "named"},
             sn \in {"bedrock-runtime", "s3"}, hb \in BOOLEAN,
             u \in {NoUrl, UrlAnthropic, UrlAws,
                    RegionHost \o << "a", "m", "a", "z", "o", "n", "a", "w", "s", ".", "c", "o" >>} }

InitProvider ==
  /\ env = [bedrock_disable |-> FALSE, ambient |-> EmptyMd]
  /\ live = {}
  /\ call = [c \in CallIds |-> IdleCall]
  /\ coros = << >>
  /\ shutdown = FALSE
  /\ dec = IdleDecoder
  /\ probe \in [fn : {"detect_provider"}, client : ProbeClients, base_url : ProbeUrls,
                 outs : {<< >>}]

\* detect_provider(client=probe.client, base_url=probe.base_url)
DetectCall ==
  /\ probe.fn = "detect_provider"
  /\ Len(probe.outs) < MaxRepeats
  /\ probe' = [probe EXCEPT !.outs = Append(@, DetectProvider(probe.client, probe.base_url))]
  /\ UNCHANGED << dec, callVars >>

NextProvider == DetectCall

(***************************************************************************)
(* create_bedrock_payload called on its own.                                *)
(***************************************************************************)
MsgAssistant == PyDict([role |-> "assistant", content |-> "Hi"])
MsgNoRole == PyDict([content |-> "Hello"])
MsgNoContent == PyDict([role |-> "user"])
MsgNoneRole == PyDict([role |-> NoneV, content |-> "Hello"])
ProbeElements == { Msg, MsgNoRole, MsgNoContent, NotADict }
ProbeMessages ==
  { PyList(<< a >>) : a \in ProbeElements }
    \cup { PyList(<< a, b >>) : a \in ProbeElements, b \in ProbeElements }
    \cup { PyList(<< Msg, MsgAssistant >>), PyList(<< MsgAssistant, Msg >>),
           PyList(<< MsgNoneRole >>), PyList(<< Msg, MsgNoRole, NotADict >>),
           MsgsEmpty, PyTuple(<< Msg >>), PyStr(TextHi), PyNone }

\* keyword arguments are put together from one choice per option; the
\* empty mapping stands for an option that is not passed
NoKw == [k \in {} |-> PyNone]
MaxTokensOpts ==
  { NoKw } \cup
  { [max_tokens |-> v] :
      v \in { PyInt(-1), PyInt(0), PyInt(1), PyInt(100), PyInt(200000), PyInt(200001),
              PyFloat(5), PyFloat(2000005), PyNumStr(1000), PyNumStr(1005), PyNone } }
TemperatureOpts == { NoKw, [temperature |-> PyFloat(5)], [temperature |-> PyFloat(11)] }
TopPOpts == { NoKw, [top_p |-> PyInt(1)] }
TopKOpts == { NoKw, [top_k |-> PyInt(5)], [top_k |-> PyInt(0)] }
VersionOpts == { NoKw, [anthropic_version |-> "bedrock-2024-01-01"] }
SystemOpts == { NoKw, [system |-> PyStr(TextHi)] }
ProbeKwargs ==
  { a @@ b @@ c @@ d @@ e @@ f :
      a \in MaxTokensOpts, b \in TemperatureOpts, c \in TopPOpts, d \in TopKOpts,
      e \in VersionOpts, f \in SystemOpts }

InitPayload ==
  /\ env = [bedrock_disable |-> FALSE, ambient |-> EmptyMd]
  /\ live = {}
  /\ call = [c \in CallIds |-> IdleCall]
  /\ coros = << >>
  /\ shutdown = FALSE
  /\ dec = IdleDecoder
  /\ probe \in [fn : {"create_bedrock_payload"}, messages : ProbeMessages,
                 kwargs : ProbeKwargs, outs : {<< >>}]

\* create_bedrock_payload(probe.messages, **probe.kwargs)
PayloadCall ==
  /\ probe.fn = "create_bedrock_payload"
  /\ Len(probe.outs) < MaxRepeats
  /\ probe' = [probe EXCEPT
                 !.outs = Append(@, CreateBedrockPayload(probe.messages, probe.kwargs))]
  /\ UNCHANGED << dec, callVars >>

NextPayload == PayloadCall

(***************************************************************************)
(* _model_id called on its own.                                             *)
(***************************************************************************)
\* "claude-4-future" and "custom-model", the unmapped names of the tests
ClaudeFuture ==
  << "c", "l", "a", "u", "d", "e", "-", "4", "-", "f", "u", "t", "u", "r",
     "e" >>
CustomModel ==
  << "c", "u", "s", "t", "o", "m", "-", "m", "o", "d", "e", "l" >>
NameLetters == { "c", "3", "-", "." }
ProbeNames ==
  { row[1] : row \in ModelMap }
    \cup { ClaudeFuture, CustomModel }
    \cup { SubSeq(row[1], 1, Len(row[1]) - 1) : row \in ModelMap }
    \cup { row[1] \o << "-", "v", "1" >> : row \in ModelMap }
    \cup { row[2] : row \in ModelMap }
    \cup { AnthropicDot \o row[1] : row \in ModelMap }
    \cup UNION { [1..n -> NameLetters] : n \in 0..3 }

InitModelId ==
  /\ env = [bedrock_disable |-> FALSE, ambient |-> EmptyMd]
  /\ live = {}
  /\ call = [c \in CallIds |-> IdleCall]
  /\ coros = << >>
  /\ shutdown = FALSE
  /\ dec = IdleDecoder
  /\ probe \in [fn : {"_model_id"}, model_name : ProbeNames, outs : {<< >>}]

\* _model_id(probe.model_name)
ModelIdCall ==
  /\ probe.fn = "_model_id"
  /\ Len(probe.outs) < MaxRepeats
  /\ probe' = [probe EXCEPT !.outs = Append(@, ModelId(probe.model_name))]
  /\ UNCHANGED << dec, callVars >>

NextModelId == ModelIdCall

(***************************************************************************)
(* _sanitize_metadata called on its own, on nested mappings.                *)
(***************************************************************************)
PyBool(b) == [type |-> "bool", value |-> b]
\* a value of a type the function does not name (a datetime, a set)
PyObject(name) == [type |-> "object", name |-> name]
\* str(value): a str that holds the text form of value
StrOf(value) == [type |-> "str", of |-> value]
EmptyDict == PyDict(NoKw)
DefaultMaxDepth == 5

\* _sanitize_metadata with the depth test at max_depth itself
RECURSIVE SanitizeMetadataShallow(_, _, _)
SanitizeMetadataShallow(metadata, max_depth, current_depth) ==
  IF current_depth >= max_depth THEN EmptyDict
  ELSE IF metadata.type # "dict" THEN EmptyDict
  ELSE PyDict([key \in DOMAIN metadata.d |->
         LET value == metadata.d[key]
         IN  CASE value.type = "dict" ->
                    SanitizeMetadataShallow(value, max_depth, current_depth + 1)
               [] value.type \in {"list", "tuple"} -> StrOf(value)
               [] value.type \in {"str", "int", "float", "bool"} -> value
               [] value.type = "NoneType" -> PyNone
               [] OTHER -> StrOf(value)])

\* _sanitize_metadata(metadata, operation_name, max_depth, current_depth);
\* operation_name only goes into the log line.  Keys are str.
RECURSIVE SanitizeMetadataAt(_, _, _)
SanitizeMetadataAt(metadata, max_depth, current_depth) ==
  IF current_depth > max_depth THEN EmptyDict
  ELSE IF metadata.type # "dict" THEN EmptyDict
  ELSE PyDict([key \in DOMAIN metadata.d |->
         LET value == metadata.d[key]
         IN  CASE value.type = "dict" ->
                    SanitizeMetadataAt(value, max_depth, current_depth + 1)
               [] value.type \in {"list", "tuple"} -> StrOf(value)
               [] value.type \in {"str", "int", "float", "bool"} -> value
               [] value.type = "NoneType" -> PyNone
               [] OTHER -> StrOf(value)])

\* n mappings one inside the other under the key "nested", around inner
RECURSIVE Nest(_, _)
Nest(n, inner) == IF n = 0 THEN inner ELSE PyDict([nested |-> Nest(n - 1, inner)])

\* how deep the given mappings are nested at most
MaxNesting == 8
TagsList == PyList(<< PyStr(<< "a" >>), PyInt(1) >>)
PairTuple == PyTuple(<< PyInt(1), PyInt(2) >>)
ScalarValues ==
  { PyStr(<< "t", "1" >>), PyStr(<< >>), PyInt(0), PyInt(7), PyFloat(15),
    PyBool(TRUE), PyBool(FALSE), PyNone }
SequenceValues == { TagsList, PairTuple, PyList(<< >>), PyList(<< TagsList >>) }
LeafValues == ScalarValues \cup SequenceValues \cup { PyObject("datetime") }
\* the innermost mapping: one entry, or a scalar next to a list
InnerDicts ==
  { PyDict([leaf |-> v]) : v \in LeafValues }
    \cup { PyDict([leaf |-> v, tags |-> TagsList]) : v \in ScalarValues }
    \cup { EmptyDict }
\* a top mapping that holds a str and a tuple next to a nested mapping
Beside(nested) ==
  PyDict([nested |-> nested, trace_id |-> PyStr(<< "t", "1" >>), pair |-> PairTuple])
\* the mapping handed to the function: the innermost mapping sits n levels
\* under the top one, which may hold entries of its own next to the nest
ProbeMetadata ==
  { Nest(n, inner) : n \in 0..MaxNesting, inner \in InnerDicts }
    \cup { Beside(Nest(n, inner)) : n \in 0..(MaxNesting - 1), inner \in InnerDicts }
    \cup { TagsList, PyNone, PyStr(<< "t", "1" >>) }

InitSanitize ==
  /\ env = [bedrock_disable |-> FALSE, ambient |-> EmptyMd]
  /\ live = {}
  /\ call = [c \in CallIds |-> IdleCall]
  /\ coros = << >>
  /\ shutdown = FALSE
  /\ dec = IdleDecoder
  /\ probe \in [fn : {"_sanitize_metadata"}, metadata : ProbeMetadata, outs : {<< >>}]

\* _sanitize_metadata(probe.metadata, operation_name) with the default depth
SanitizeCall ==
  /\ probe.fn = "_sanitize_metadata"
  /\ Len(probe.outs) < MaxRepeats
  /\ probe' = [probe EXCEPT
                 !.outs = Append(@, SanitizeMetadataAt(probe.metadata, DefaultMaxDepth, 0))]
  /\ UNCHANGED << dec, callVars >>

NextSanitize == SanitizeCall

(***************************************************************************)
(* _extract_trace_fields called on its own.  The getters of the             *)
(* trace_fields module read one environment variable each.                  *)
(***************************************************************************)
\* os.getenv(name)
GetEnv(environ, name) == Get(environ, name, PyNone)

Digits == { "0", "1", "2", "3", "4", "5", "6", "7", "8", "9" }
Letters == { UpperLetters[i] : i \in 1..Len(UpperLetters) } \cup { LowerLetters[i] : i \in 1..Len(LowerLetters) }
TraceTypeChars == Letters \cup Digits \cup { "_", "-" }
TraceTypeMaxLen == 128
TraceNameMaxLen == 256

\* validate_trace_type: the value itself, or None when it is longer than 128
\* characters or holds a character outside [A-Za-z0-9_-]
ValidateTraceType(v) ==
  IF v.type = "str" /\ Len(v.items) <= TraceTypeMaxLen
       /\ \A i \in 1..Len(v.items) : v.items[i] \in TraceTypeChars
    THEN v
    ELSE PyNone

\* validate_trace_name: the first 256 characters
ValidateTraceName(v) ==
  IF v.type # "str" THEN PyNone
  ELSE IF Len(v.items) <= TraceNameMaxLen THEN v
  ELSE PyStr(SubSeq(v.items, 1, TraceNameMaxLen))

GetEnvironment(environ) == GetEnv(environ, "REVENIUM_ENVIRONMENT")
GetRegion(environ) == GetEnv(environ, "REVENIUM_REGION")
GetCredentialAlias(environ) == GetEnv(environ, "REVENIUM_CREDENTIAL_ALIAS")
GetTraceType(environ) == ValidateTraceType(GetEnv(environ, "REVENIUM_TRACE_TYPE"))
GetTraceName(environ) == ValidateTraceName(GetEnv(environ, "REVENIUM_TRACE_NAME"))
GetParentTransactionId(environ) == GetEnv(environ, "REVENIUM_PARENT_TRANSACTION_ID")
GetTransactionName(environ) == GetEnv(environ, "REVENIUM_TRANSACTION_NAME")
\* the variable's text read as an int, 0 when it is not set
GetRetryNumber(environ) ==
  IF "REVENIUM_RETRY_NUMBER" \in DOMAIN environ
    THEN [type |-> "int", tenths |-> environ["REVENIUM_RETRY_NUMBER"].tenths]
    ELSE PyInt(0)

\* Python's "a or b" on str and None operands
OrElse(a, b) == IF Truthy(a) THEN a ELSE b

\* usage_metadata.get(key)
MdGet(usage_metadata, key) == Get(usage_metadata, key, PyNone)

\* _extract_trace_fields(usage_metadata): the eight resolved trace fields
ExtractTraceFields(usage_metadata, environ) ==
  [environment |->
     OrElse(MdGet(usage_metadata, "environment"), GetEnvironment(environ)),
   region |-> OrElse(MdGet(usage_metadata, "region"), GetRegion(environ)),
   credential_alias |->
     OrElse(MdGet(usage_metadata, "credentialAlias"),
            OrElse(MdGet(usage_metadata, "credential_alias"),
                   GetCredentialAlias(environ))),
   trace_type |->
     OrElse(MdGet(usage_metadata, "traceType"),
            OrElse(MdGet(usage_metadata, "trace_type"), GetTraceType(environ))),
   trace_name |->
     OrElse(MdGet(usage_metadata, "traceName"),
            OrElse(MdGet(usage_metadata, "trace_name"), GetTraceName(environ))),
   parent_transaction_id |->
     OrElse(MdGet(usage_metadata, "parentTransactionId"),
            OrElse(MdGet(usage_metadata, "parent_transaction_id"),
                   GetParentTransactionId(environ))),
   transaction_name |->
     OrElse(MdGet(usage_metadata, "transactionName"),
            OrElse(MdGet(usage_metadata, "transaction_name"),
                   GetTransactionName(environ))),
   retry_number |->
     Get(usage_metadata, "retryNumber",
         Get(usage_metadata, "retry_number", GetRetryNumber(environ)))]

\* one row for each trace field: the name of the field in the result, its
\* two per-call keys and its environment variable
TraceRows ==
  { [field |-> "environment", camel |-> "environment", snake |-> "environment",
     variable |-> "REVENIUM_ENVIRONMENT"],
    [field |-> "region", camel |-> "region", snake |-> "region",
     variable |-> "REVENIUM_REGION"],
    [field |-> "credential_alias", camel |-> "credentialAlias",
     snake |-> "credential_alias", variable |-> "REVENIUM_CREDENTIAL_ALIAS"],
    [field |-> "trace_type", camel |-> "traceType", snake |-> "trace_type",
     variable |-> "REVENIUM_TRACE_TYPE"],
    [field |-> "trace_name", camel |-> "traceName", snake |-> "trace_name",
     variable |-> "REVENIUM_TRACE_NAME"],
    [field |-> "parent_transaction_id", camel |-> "parentTransactionId",
     snake |-> "parent_transaction_id", variable |-> "REVENIUM_PARENT_TRANSACTION_ID"],
    [field |-> "transaction_name", camel |-> "transactionName",
     snake |-> "transaction_name", variable |-> "REVENIUM_TRANSACTION_NAME"],
    [field |-> "retry_number", camel |-> "retryNumber", snake |-> "retry_number",
     variable |-> "REVENIUM_RETRY_NUMBER"] }
TextRows == { row \in TraceRows : row.field # "retry_number" }

CamelText == PyStr(<< "c", "a", "m", "e", "l", "-", "1" >>)
SnakeText == PyStr(<< "s", "n", "a", "k", "e", "_", "1" >>)
EnvText == PyStr(<< "e", "n", "v" >>)
EmptyText == PyStr(<< >>)
\* "test workflow" and "a.b" of the tests, and 128 and 129 letters
SpacedType == PyStr(<< "a", " ", "b" >>)
DottedType == PyStr(<< "a", ".", "b" >>)
LongestType == PyStr([i \in 1..TraceTypeMaxLen |-> "a"])
TooLongType == PyStr([i \in 1..(TraceTypeMaxLen + 1) |-> "a"])
BadTypes == { SpacedType, DottedType, TooLongType }

\* what one per-call key may hold: nothing (the key is absent), a text, the
\* empty text or None
KeyOpts(key, text) ==
  { NoKw } \cup { [k \in {key} |-> v] : v \in { text, EmptyText, PyNone } }
RetryOpts(key, n) ==
  { NoKw } \cup { [k \in {key} |-> v] : v \in { PyInt(n), PyInt(0), PyNone } }

\* per-call metadata: the keys of one field, or one key of every field
ProbeTraceMetadata ==
  UNION { { a @@ b : a \in KeyOpts(row.camel, CamelText),
                     b \in KeyOpts(row.snake, SnakeText) } : row \in TextRows }
    \cup { a @@ b : a \in RetryOpts("retryNumber", 5), b \in RetryOpts("retry_number", 3) }
    \cup { [k \in {key} |-> v] : key \in {"traceType", "trace_type"},
                                  v \in BadTypes \cup { LongestType } }
    \cup { [k \in { row.camel : row \in TraceRows } |->
              IF k = "retryNumber" THEN PyInt(5) ELSE CamelText],
           [k \in { row.snake : row \in TraceRows } |->
              IF k = "retry_number" THEN PyInt(3) ELSE SnakeText] }

\* the process environment: no variable set, every variable set, or a trace
\* type that does not validate
EnvAllSet ==
  [n \in { row.variable : row \in TraceRows } |->
     IF n = "REVENIUM_RETRY_NUMBER" THEN PyNumStr(20) ELSE EnvText]
ProbeEnvirons ==
  { NoKw, EnvAllSet }
    \cup { [EnvAllSet EXCEPT !["REVENIUM_TRACE_TYPE"] = v] : v \in BadTypes \cup { LongestType } }

InitTrace ==
  /\ env = [bedrock_disable |-> FALSE, ambient |-> EmptyMd]
  /\ live = {}
  /\ call = [c \in CallIds |-> IdleCall]
  /\ coros = << >>
  /\ shutdown = FALSE
  /\ dec = IdleDecoder
  /\ probe \in [fn : {"_extract_trace_fields"}, usage_metadata : ProbeTraceMetadata,
                environ : ProbeEnvirons, outs : {<< >>}]

\* _extract_trace_fields(probe.usage_metadata) under probe.environ
TraceCall ==
  /\ probe.fn = "_extract_trace_fields"
  /\ Len(probe.outs) < MaxRepeats
  /\ probe' = [probe EXCEPT
                 !.outs = Append(@, ExtractTraceFields(probe.usage_metadata, probe.environ))]
  /\ UNCHANGED << dec, callVars >>

NextTrace == TraceCall

(***************************************************************************)
(* get_bedrock_client and the region client cache.  _client_cache is a      *)
(* dict: its entries in insertion order.  The whole lookup runs under       *)
(* _cache_lock.                                                             *)
(***************************************************************************)
\* str.strip() on blanks
RECURSIVE LStrip(_)
LStrip(str) == IF str # << >> /\ Head(str) = " " THEN LStrip(Tail(str)) ELSE str
RECURSIVE RStrip(_)
RStrip(str) ==
  IF str # << >> /\ str[Len(str)] = " " THEN RStrip(SubSeq(str, 1, Len(str) - 1)) ELSE str
Strip(str) == RStrip(LStrip(str))

\* not isinstance(region, str) or not region.strip()
BadRegion(region) == region.type # "str" \/ Strip(region.items) = << >>

LookedUp(client) == [kind |-> "returned", client |-> client, exc |-> NoneV]
\* client 0: no client
LookupRaised(exc) == [kind |-> "raised", client |-> 0, exc |-> exc]

\* where region sits in the cache, 0 when it is not cached
CacheIndex(cache, key) ==
  IF \E i \in 1..Len(cache) : cache[i].region = key
    THEN CHOOSE i \in 1..Len(cache) : cache[i].region = key
    ELSE 0

\* get_bedrock_client with a hit that moves the entry to the end of the cache
GetBedrockClientRefreshing(cache, made, region, construct) ==
  IF BadRegion(region)
    THEN [cache |-> cache, made |-> made, result |-> LookupRaised("BedrockValidationError")]
  ELSE
    LET key == Strip(region.items)
        at == CacheIndex(cache, key)
        room == IF Len(cache) >= CacheSize THEN Tail(cache) ELSE cache
    IN  IF at # 0
          THEN [cache |-> SubSeq(cache, 1, at - 1) \o SubSeq(cache, at + 1, Len(cache))
                            \o << cache[at] >>,
                made |-> made, result |-> LookedUp(cache[at].client)]
        ELSE IF construct # "ok"
          THEN [cache |-> room, made |-> made, result |-> LookupRaised(construct)]
        ELSE [cache |-> Append(room, [region |-> key, client |-> made + 1]),
              made |-> made + 1, result |-> LookedUp(made + 1)]

\* get_bedrock_client(region) on the cache, made clients constructed so far;
\* construct is what importing boto3 and boto3.client do: "ok" or the
\* exception raised.  A client is named by the number of its construction.
GetBedrockClient(cache, made, region, construct) ==
  IF BadRegion(region)
    THEN [cache |-> cache, made |-> made, result |-> LookupRaised("BedrockValidationError")]
  ELSE
    LET key == Strip(region.items)
        at == CacheIndex(cache, key)
        room == IF Len(cache) >= CacheSize THEN Tail(cache) ELSE cache
    IN  IF at # 0
          THEN [cache |-> cache, made |-> made, result |-> LookedUp(cache[at].client)]
        ELSE IF construct # "ok"
          THEN [cache |-> room, made |-> made, result |-> LookupRaised(construct)]
        ELSE [cache |-> Append(room, [region |-> key, client |-> made + 1]),
              made |-> made + 1, result |-> LookedUp(made + 1)]

UsEast1 == << "u", "s", "-", "e", "1" >>
UsWest2 == << "u", "s", "-", "w", "2" >>
EuWest1 == << "e", "u", "-", "w", "1" >>
ApSouth1 == << "a", "p", "-", "s", "1" >>
ProbeRegions ==
  { PyStr(r) : r \in { UsEast1, UsWest2, EuWest1, ApSouth1 } }
    \cup { PyStr(<< " " >> \o UsEast1 \o << " " >>), PyStr(<< " ", " " >>), PyStr(<< >>),
           PyNone }
ConstructOutcomes == { "ok", "ImportError", "NoRegionError" }

NoLookup == [region |-> PyNone, result |-> LookupRaised(NoneV)]

InitRegionCache ==
  /\ env = [bedrock_disable |-> FALSE, ambient |-> EmptyMd]
  /\ live = {}
  /\ call = [c \in CallIds |-> IdleCall]
  /\ coros = << >>
  /\ shutdown = FALSE
  /\ dec = IdleDecoder
  /\ probe = [fn |-> "get_bedrock_client", cache |-> << >>, made |-> 0, last |-> NoLookup]

\* one call get_bedrock_client(region)
ClientLookup(region, construct) ==
  /\ probe.fn = "get_bedrock_client"
  /\ probe.made < MaxClients
  /\ LET got == GetBedrockClient(probe.cache, probe.made, region, construct)
     IN  probe' = [probe EXCEPT !.cache = got.cache, !.made = got.made,
                                !.last = [region |-> region, result |-> got.result]]
  /\ UNCHANGED << dec, callVars >>

NextRegionCache ==
  \E region \in ProbeRegions, construct \in ConstructOutcomes : ClientLookup(region, construct)

(***************************************************************************)
(* get_or_detect_provider and its thread-local cache.                       *)
(***************************************************************************)
Threads == { "t1", "t2" }

\* _get_thread_cache() of a thread that has not called yet
FreshThreadCache == [detected_provider |-> NoneV, detection_attempted |-> FALSE]

\* get_or_detect_provider with one cache for all threads
GetOrDetectProviderShared(caches, thread, client, base_url, force_redetect) ==
  LET cache == caches[thread]
  IN  IF force_redetect \/ ~ cache.detection_attempted
        THEN LET detected == DetectProvider(client, base_url)
             IN  [caches |-> [t \in Threads |->
                                [detected_provider |-> detected,
                                 detection_attempted |-> TRUE]],
                  result |-> detected]
        ELSE [caches |-> caches, result |-> cache.detected_provider]

\* get_or_detect_provider(client, base_url, force_redetect) called on thread;
\* caches holds the attributes of _thread_local as each thread sees them
GetOrDetectProvider(caches, thread, client, base_url, force_redetect) ==
  LET cache == caches[thread]
  IN  IF force_redetect \/ ~ cache.detection_attempted
        THEN LET detected == DetectProvider(client, base_url)
             IN  [caches |-> [caches EXCEPT ![thread] =
                                [detected_provider |-> detected,
                                 detection_attempted |-> TRUE]],
                  result |-> detected]
        ELSE [caches |-> caches, result |-> cache.detected_provider]

LookupClients == { NoClient, ClientPlain, ClientBedrock, ClientAwsUrl }
LookupUrls == { NoUrl, UrlAnthropic, UrlAws }
NoProviderLookup ==
  [thread |-> NoneV, client |-> NoClient, base_url |-> NoUrl, force_redetect |-> FALSE,
   result |-> NoneV]

InitProviderCache ==
  /\ env = [bedrock_disable |-> FALSE, ambient |-> EmptyMd]
  /\ live = {}
  /\ call = [c \in CallIds |-> IdleCall]
  /\ coros = << >>
  /\ shutdown = FALSE
  /\ dec = IdleDecoder
  /\ probe = [fn |-> "get_or_detect_provider",
              caches |-> [t \in Threads |-> FreshThreadCache],
              calls |-> 0, last |-> NoProviderLookup]

\* one call get_or_detect_provider(client, base_url, force_redetect) on thread
ProviderLookup(thread, client, base_url, force_redetect) ==
  /\ probe.fn = "get_or_detect_provider"
  /\ probe.calls < MaxLookups
  /\ LET got == GetOrDetectProvider(probe.caches, thread, client, base_url, force_redetect)
     IN  probe' = [probe EXCEPT
                     !.caches = got.caches,
                     !.calls = @ + 1,
                     !.last = [thread |-> thread, client |-> client, base_url |-> base_url,
                               force_redetect |-> force_redetect, result |-> got.result]]
  /\ UNCHANGED << dec, callVars >>

NextProviderCache ==
  \E thread \in Threads, client \in LookupClients, base_url \in LookupUrls,
     force_redetect \in BOOLEAN :
       ProviderLookup(thread, client, base_url, force_redetect)

(***************************************************************************)
(* bedrock_invoke called on its own.  What the client lookup, the transport *)
(* call and the response body do is given with the arguments.               *)
(***************************************************************************)
\* _validate_model_name: the stripped name, or the BedrockValidationError
ValidateModelName(model) ==
  IF model.type # "str" THEN [ok |-> FALSE, model |-> << >>]
  ELSE IF Strip(model.items) = << >> THEN [ok |-> FALSE, model |-> << >>]
  ELSE [ok |-> TRUE, model |-> Strip(model.items)]

\* "us-east-1", the default of os.getenv("AWS_REGION", ...)
DefaultRegion == << "u", "s", "-", "e", "a", "s", "t", "-", "1" >>

\* region or os.getenv("AWS_REGION", "us-east-1")
ResolveRegion(region, environ) ==
  IF \/ region.type = "NoneType"
     \/ region.type = "str" /\ region.items = << >>
     \/ region.type = "int" /\ region.tenths = 0
    THEN Get(environ, "AWS_REGION", PyStr(DefaultRegion))
    ELSE region

\* the text of the final except clause, up to the exception's own text
InvokeFailedForModel ==
  << "B", "e", "d", "r", "o", "c", "k", " ", "i", "n", "v", "o", "k", "e", " ",
     "f", "a", "i", "l", "e", "d", " ", "f", "o", "r", " ", "m", "o", "d", "e",
     "l", " " >>
InRegion == << " ", "i", "n", " ", "r", "e", "g", "i", "o", "n", " " >>
InvokeFailedMessage(model, region) ==
  InvokeFailedForModel \o model \o InRegion \o region \o << ":", " " >>

InvokeReturned(text, input_tokens, output_tokens) ==
  [kind |-> "returned", exc |-> NoneV, message |-> << >>, text |-> text,
   input_tokens |-> input_tokens, output_tokens |-> output_tokens,
   lookups |-> 1, invocations |-> 1]
InvokeRaised(exc, message, lookups, invocations) ==
  [kind |-> "raised", exc |-> exc, message |-> message, text |-> << >>,
   input_tokens |-> 0, output_tokens |-> 0,
   lookups |-> lookups, invocations |-> invocations]

\* the except clauses of bedrock_invoke with the last one re-raising
WrapInvokeFailureRaw(exc, model, region, invocations) ==
  InvokeRaised(exc, << >>, 1, invocations)

\* the except clauses of bedrock_invoke: BedrockValidationError and
\* ImportError go out as they are, anything else inside BedrockInvokeError
WrapInvokeFailure(exc, model, region, invocations) ==
  IF exc \in { "BedrockValidationError", "ImportError" }
    THEN InvokeRaised(exc, << >>, 1, invocations)
    ELSE InvokeRaised("BedrockInvokeError", InvokeFailedMessage(model, region), 1,
                      invocations)

\* the text of the content blocks whose type is "text", in order
RECURSIVE BlocksText(_)
BlocksText(blocks) ==
  IF blocks = << >> THEN << >>
  ELSE (IF Head(blocks).type = "text" THEN Head(blocks).text ELSE << >>)
         \o BlocksText(Tail(blocks))

\* the token counts of bedrock_invoke: the camelCase pair, the snake_case
\* pair if both came out 0, the legacy pair if both came out 0 again
InvokeTokens(usage) ==
  LET camel == [input_tokens |-> Get(usage, "inputTokens", 0),
                output_tokens |-> Get(usage, "outputTokens", 0)]
      snake == [input_tokens |-> Get(usage, "input_tokens", 0),
                output_tokens |-> Get(usage, "output_tokens", 0)]
      legacy == [input_tokens |-> Get(usage, "prompt_tokens", 0),
                 output_tokens |-> Get(usage, "completion_tokens", 0)]
  IN  IF camel.input_tokens # 0 \/ camel.output_tokens # 0 THEN camel
      ELSE IF snake.input_tokens # 0 \/ snake.output_tokens # 0 THEN snake
      ELSE legacy

\* what reading and parsing a response body raises, NoneV when it parses into
\* an object whose usage, if any, is an object
BodyFault(body) ==
  CASE body.shape = "no_body" -> "KeyError"
    [] body.shape = "bad_json" -> "JSONDecodeError"
    [] body.shape \in { "not_object", "usage_null" } -> "AttributeError"
    [] OTHER -> NoneV

\* bedrock_invoke(model, payload, region) with AWS_REGION from environ;
\* lookup is what get_bedrock_client does, transport what invoke_model does
\* ("ok" or the exception raised), body the response body returned
BedrockInvoke(model, payload, region, environ, lookup, transport, body) ==
  LET checked == ValidateModelName(model)
      resolved == ResolveRegion(region, environ)
  IN  IF ~ checked.ok
        THEN InvokeRaised("BedrockValidationError", << >>, 0, 0)
      ELSE IF payload.type # "dict"
        THEN InvokeRaised("BedrockValidationError", << >>, 0, 0)
      ELSE IF BadRegion(resolved)
        THEN InvokeRaised("BedrockValidationError", << >>, 0, 0)
      ELSE IF lookup # "ok"
        THEN WrapInvokeFailure(lookup, checked.model, resolved.items, 0)
      ELSE IF transport # "ok"
        THEN WrapInvokeFailure(transport, checked.model, resolved.items, 1)
      ELSE IF BodyFault(body) \in { "KeyError", "JSONDecodeError" }
        THEN WrapInvokeFailure("BedrockInvokeError", checked.model, resolved.items, 1)
      ELSE IF BodyFault(body) # NoneV
        THEN WrapInvokeFailure(BodyFault(body), checked.model, resolved.items, 1)
      ELSE LET tokens == InvokeTokens(body.usage)
           IN  InvokeReturned(BlocksText(body.content), tokens.input_tokens,
                              tokens.output_tokens)

\* the arguments of the tests and arguments that do not validate
OpusName ==
  << "c", "l", "a", "u", "d", "e", "-", "3", "-", "o", "p", "u", "s", "-", "2",
     "0", "2", "4", "0", "2", "2", "9" >>
InvokeModels ==
  { PyStr(OpusName), PyStr(<< " " >> \o CustomModel \o << " " >>), PyStr(<< >>),
    PyStr(<< " " >>), PyNone, PyInt(3) }
InvokePayloads == { PyDict([messages |-> MsgsOk]), PyDict(NoKw), MsgsOk, PyNone }
UsWest2Full == << "u", "s", "-", "w", "e", "s", "t", "-", "2" >>
InvokeRegions ==
  { PyNone, PyStr(<< >>), PyStr(UsWest2Full), PyStr(<< " ", " " >>), PyInt(5) }
InvokeEnvirons == { NoKw, [AWS_REGION |-> PyStr(EuWest1)], [AWS_REGION |-> PyStr(<< >>)] }
LookupOutcomes == { "ok", "ImportError", "NoRegionError" }
TransportOutcomes == { "ok", "ClientError" }

\* a response body: an object with content blocks and a usage object that
\* holds the keys of its domain, or a body that does not parse
Body(shape, content, usage) == [shape |-> shape, content |-> content, usage |-> usage]
HelloBlocks ==
  << [type |-> "text", text |-> << "H", "e", "l", "l", "o", ",", " " >>],
     [type |-> "text", text |-> << "w", "o", "r", "l", "d", "!" >>],
     [type |-> "image", text |-> << "b", "6", "4" >>] >>
NoUsageKeys == [k \in {} |-> 0]
\* every choice of absent, 0 or a count for each of the six spellings
TokenKey(key, n) == { NoUsageKeys } \cup { [k \in {key} |-> v] : v \in { 0, n } }
ProbeUsages ==
  { a @@ b @@ c @@ d @@ e @@ f :
      a \in TokenKey("inputTokens", 10), b \in TokenKey("outputTokens", 5),
      c \in TokenKey("input_tokens", 7), d \in TokenKey("output_tokens", 3),
      e \in TokenKey("prompt_tokens", 4), f \in TokenKey("completion_tokens", 2) }
BrokenBodies ==
  { Body(s, << >>, NoUsageKeys) : s \in { "no_body", "bad_json", "not_object", "usage_null" } }
CamelBody == Body("object", HelloBlocks, [inputTokens |-> 10, outputTokens |-> 5])

\* the calls made: every usage object with arguments that pass, and every
\* combination of arguments and failures with one usage object
ProbeInvocations ==
  [model : { PyStr(OpusName) }, payload : { PyDict([messages |-> MsgsOk]) },
   region : { PyNone }, environ : { NoKw }, lookup : { "ok" }, transport : { "ok" },
   body : { Body("object", HelloBlocks, u) : u \in ProbeUsages }]
    \cup [model : InvokeModels, payload : InvokePayloads, region : InvokeRegions,
          environ : InvokeEnvirons, lookup : LookupOutcomes,
          transport : TransportOutcomes, body : BrokenBodies \cup { CamelBody }]

InitInvoke ==
  /\ env = [bedrock_disable |-> FALSE, ambient |-> EmptyMd]
  /\ live = {}
  /\ call = [c \in CallIds |-> IdleCall]
  /\ coros = << >>
  /\ shutdown = FALSE
  /\ dec = IdleDecoder
  /\ \E args \in ProbeInvocations :
       probe = [fn |-> "bedrock_invoke", args |-> args, outs |-> << >>]

\* bedrock_invoke(model, payload, region) on probe.args
InvokeCall ==
  /\ probe.fn = "bedrock_invoke"
  /\ Len(probe.outs) < MaxRepeats
  /\ LET a == probe.args
     IN  probe' = [probe EXCEPT
                     !.outs = Append(@, BedrockInvoke(a.model, a.payload, a.region,
                                                      a.environ, a.lookup, a.transport,
                                                      a.body))]
  /\ UNCHANGED << dec, callVars >>

NextInvoke == InvokeCall

(***************************************************************************)
(* middleware.py: _get_thread_safe_client and its cache of client handles,  *)
(* a dict keyed by the identifier of the calling thread; its entries in     *)
(* insertion order.  The whole lookup runs under _client_cache_lock.        *)
(***************************************************************************)
\* the worker threads that deliver usage events
MaxWorkers == 4
WorkerThreads == 1..MaxWorkers

\* the one client instance of the core package, revenium_middleware.client
MeteringClient == "revenium_middleware.client"

\* where thread_id sits in the cache, 0 when it is not cached
ThreadIndex(cache, thread_id) ==
  IF \E i \in 1..Len(cache) : cache[i].thread_id = thread_id
    THEN CHOOSE i \in 1..Len(cache) : cache[i].thread_id = thread_id
    ELSE 0

\* _get_thread_safe_client() called on thread thread_id; import is what
\* importing the core package and reading its client does, "ok" or the
\* exception raised.  client NoneV: the function returned None.
GetThreadSafeClient(cache, thread_id, import) ==
  LET at == ThreadIndex(cache, thread_id)
  IN  IF at # 0
        THEN [cache |-> cache, client |-> cache[at].client, log |-> << >>]
      ELSE IF import = "ok"
        THEN [cache |-> Append(cache, [thread_id |-> thread_id, client |-> MeteringClient]),
              client |-> MeteringClient, log |-> << "debug" >>]
      ELSE [cache |-> cache, client |-> NoneV, log |-> << "warning" >>]

ImportOutcomes == { "ok", "ImportError" }

InitMeteringCache ==
  /\ env = [bedrock_disable |-> FALSE, ambient |-> EmptyMd]
  /\ live = {}
  /\ call = [c \in CallIds |-> IdleCall]
  /\ coros = << >>
  /\ shutdown = FALSE
  /\ dec = IdleDecoder
  /\ probe = [fn |-> "_get_thread_safe_client", cache |-> << >>, outs |-> << >>]

\* one metering delivery on thread thread_id asks for its client
MeteringClientLookup(thread_id, import) ==
  /\ probe.fn = "_get_thread_safe_client"
  /\ Len(probe.outs) < MaxWorkers
  /\ LET got == GetThreadSafeClient(probe.cache, thread_id, import)
     IN  probe' = [probe EXCEPT
                     !.cache = got.cache,
                     !.outs = Append(@, [thread_id |-> thread_id, import |-> import,
                                         client |-> got.client])]
  /\ UNCHANGED << dec, callVars >>

NextMeteringCache ==
  \E thread_id \in WorkerThreads, import \in ImportOutcomes :
    MeteringClientLookup(thread_id, import)

(***************************************************************************)
(* get_bedrock_client called from several threads.  Each call is a thread   *)
(* position: "wait" before the with statement, then under _cache_lock       *)
(* "locked" (the membership test), "evict" (the size test), "construct"     *)
(* (import and boto3.client) and "store"; "done" once it returned or        *)
(* raised.  The threads are interleaved statement by statement.             *)
(***************************************************************************)
\* a with statement on a lock nobody holds
CacheLockAbsent(lock, thread) == TRUE

\* with _cache_lock: an RLock is free for a thread when no other thread
\* holds it
CacheLockFree(lock, thread) == lock = NoneV \/ lock = thread

\* _client_cache[region] = client: a new key goes to the end, a key already
\* there keeps its place
DictSet(cache, key, client) ==
  IF CacheIndex(cache, key) = 0
    THEN Append(cache, [region |-> key, client |-> client])
    ELSE [cache EXCEPT ![CacheIndex(cache, key)].client = client]

IdleThread ==
  [pc |-> "idle", key |-> << >>, construct |-> "ok", client |-> 0,
   result |-> LookupRaised(NoneV), raced |-> FALSE]

RaceRegions == { PyStr(UsEast1), PyStr(UsWest2), PyStr(EuWest1), PyStr(<< " " >>) }

InitRegionRace ==
  /\ env = [bedrock_disable |-> FALSE, ambient |-> EmptyMd]
  /\ live = {}
  /\ call = [c \in CallIds |-> IdleCall]
  /\ coros = << >>
  /\ shutdown = FALSE
  /\ dec = IdleDecoder
  /\ probe = [fn |-> "get_bedrock_client threads", cache |-> << >>, made |-> 0,
              lock |-> NoneV, calls |-> 0, th |-> [t \in Threads |-> IdleThread]]

\* thread t calls get_bedrock_client(region): the validation and the strip,
\* before the lock is asked for.  raced: another call was under way.
RaceCall(t, region, construct) ==
  /\ probe.fn = "get_bedrock_client threads"
  /\ probe.th[t].pc \in { "idle", "done" }
  /\ probe.calls < MaxLookups
  /\ LET raced == \E u \in Threads \ { t } : probe.th[u].pc \notin { "idle", "done" }
     IN  probe' =
           [probe EXCEPT
              !.calls = @ + 1,
              !.th[t] =
                 IF BadRegion(region)
                   THEN [IdleThread EXCEPT
                           !.pc = "done",
                           !.result = LookupRaised("BedrockValidationError"),
                           !.raced = raced]
                   ELSE [IdleThread EXCEPT
                           !.pc = "wait", !.key = Strip(region.items),
                           !.construct = construct, !.raced = raced]]
  /\ UNCHANGED << dec, callVars >>

\* thread t enters the with block
RaceAcquire(t) ==
  /\ probe.fn = "get_bedrock_client threads"
  /\ probe.th[t].pc = "wait"
  /\ CacheLockFree(probe.lock, t)
  /\ probe' = [probe EXCEPT !.lock = t, !.th[t].pc = "locked"]
  /\ UNCHANGED << dec, callVars >>

\* if region in _client_cache: return _client_cache[region]
RaceTest(t) ==
  /\ probe.fn = "get_bedrock_client threads"
  /\ probe.th[t].pc = "locked"
  /\ LET at == CacheIndex(probe.cache, probe.th[t].key)
     IN  probe' =
           IF at # 0
             THEN [probe EXCEPT !.lock = NoneV, !.th[t].pc = "done",
                                !.th[t].result = LookedUp(probe.cache[at].client)]
             ELSE [probe EXCEPT !.th[t].pc = "evict"]
  /\ UNCHANGED << dec, callVars >>

\* if len(_client_cache) >= _CACHE_SIZE: delete the oldest entry
RaceEvict(t) ==
  /\ probe.fn = "get_bedrock_client threads"
  /\ probe.th[t].pc = "evict"
  /\ probe' = [probe EXCEPT
                 !.cache = IF Len(@) >= CacheSize THEN Tail(@) ELSE @,
                 !.th[t].pc = "construct"]
  /\ UNCHANGED << dec, callVars >>

\* _import_boto3() and boto3.client(...): a failure leaves the with block
RaceConstruct(t) ==
  /\ probe.fn = "get_bedrock_client threads"
  /\ probe.th[t].pc = "construct"
  /\ probe' =
       IF probe.th[t].construct # "ok"
         THEN [probe EXCEPT !.lock = NoneV, !.th[t].pc = "done",
                            !.th[t].result = LookupRaised(probe.th[t].construct)]
         ELSE [probe EXCEPT !.made = @ + 1, !.th[t].client = probe.made + 1,
                            !.th[t].pc = "store"]
  /\ UNCHANGED << dec, callVars >>

\* _client_cache[region] = client; return client
RaceStore(t) ==
  /\ probe.fn = "get_bedrock_client threads"
  /\ probe.th[t].pc = "store"
  /\ probe' = [probe EXCEPT
                 !.cache = DictSet(@, probe.th[t].key, probe.th[t].client),
                 !.lock = NoneV, !.th[t].pc = "done",
                 !.th[t].result = LookedUp(probe.th[t].client)]
  /\ UNCHANGED << dec, callVars >>

NextRegionRace ==
  \/ \E t \in Threads, region \in RaceRegions, construct \in ConstructOutcomes :
       RaceCall(t, region, construct)
  \/ \E t \in Threads : RaceAcquire(t)
  \/ \E t \in Threads : RaceTest(t)
  \/ \E t \in Threads : RaceEvict(t)
  \/ \E t \in Threads : RaceConstruct(t)
  \/ \E t \in Threads : RaceStore(t)

(***************************************************************************)
(* The operation type of a usage event: detect_operation_type, the last     *)
(* part of _extract_trace_fields, and the four places that build an event.  *)
(***************************************************************************)
\* detect_operation_type(vendor, endpoint_path, request_body)
DetectOperationType(vendor, endpoint_path, request_body) ==
  LET tools == Get(request_body, "tools", PyNone)
  IN  [operationType |->
         IF tools.type = "list" /\ tools.items # << >> THEN "TOOL_CALL" ELSE "CHAT",
       operationSubtype |-> NoneV]

\* _extract_trace_fields(usage_metadata, request_body=None): the operation
\* fields; request_body or {} is what detection looks at
OperationFields(usage_metadata, request_body) ==
  LET body == IF request_body = NoneV THEN NoKw ELSE request_body
      info == DetectOperationType("anthropic", "/messages", body)
  IN  [operation_type |-> info.operationType,
       operation_subtype |-> info.operationSubtype]

\* operation_type and operation_subtype as the metering call of each kind
\* passes them to create_completion for the request kwargs: the three that
\* resolve trace fields call _extract_trace_fields(usage_metadata) without
\* the request, the cloud stream passes a constant and no subtype
EventOperation(kind, usage_metadata, kwargs) ==
  IF kind = "bedrock_stream"
    THEN [operation_type |-> "CHAT", operation_subtype |-> NoneV]
    ELSE LET trace_fields == OperationFields(usage_metadata, NoneV)
         IN  [operation_type |-> trace_fields.operation_type,
              operation_subtype |-> trace_fields.operation_subtype]

Tool == PyDict([name |-> "get_weather"])
ToolsOpts ==
  { NoKw, [tools |-> PyNone], [tools |-> PyList(<< >>)], [tools |-> PyList(<< Tool >>)],
    [tools |-> PyList(<< Tool, Tool >>)] }
EventKinds == { "create", "bedrock_create", "stream", "bedrock_stream" }
OperationMetadata == { NoKw, [operationType |-> PyStr(<< "T", "O", "O", "L" >>)] }

InitOperation ==
  /\ env = [bedrock_disable |-> FALSE, ambient |-> EmptyMd]
  /\ live = {}
  /\ call = [c \in CallIds |-> IdleCall]
  /\ coros = << >>
  /\ shutdown = FALSE
  /\ dec = IdleDecoder
  /\ probe \in [fn : { "operation_type" }, kind : EventKinds,
                kwargs : { BaseKw @@ t : t \in ToolsOpts },
                usage_metadata : OperationMetadata, outs : { << >> }]

\* the metering call of an intercepted request builds its event
OperationCall ==
  /\ probe.fn = "operation_type"
  /\ Len(probe.outs) < MaxRepeats
  /\ probe' = [probe EXCEPT
                 !.outs = Append(@, EventOperation(probe.kind, probe.usage_metadata,
                                                   probe.kwargs))]
  /\ UNCHANGED << dec, callVars >>

NextOperation == OperationCall

Init == InitCalls

Next ==
  \/ \E c \in CallIds, op \in {"create", "stream"}, kw \in KwargsSet, cl \in ClientSet :
       Invoke(c, op, kw, cl)
  \/ \E c \in CallIds : Extract(c)
  \/ \E c \in CallIds : Decide(c)
  \/ \E c \in CallIds, out \in CloudOutcomes : CloudCreate(c, out)
  \/ \E c \in CallIds, resp \in DirectResponses : DirectCreateReturns(c, resp)
  \/ \E c \in CallIds : DirectCreateRaises(c)
  \/ \E c \in CallIds : StreamOpenCloud(c)
  \/ \E c \in CallIds, ch \in DirectChunkScripts, fin \in UnderFinals, fr \in BOOLEAN :
       StreamOpenDirectReturns(c, ch, fin, fr)
  \/ \E c \in CallIds : StreamOpenDirectRaises(c)
  \/ \E c \in CallIds : Enter(c)
  \/ \E c \in CallIds : PullDirect(c)
  \/ \E c \in CallIds : PullDirectRaises(c)
  \/ \E c \in CallIds, o \in StartOutcomes, ev \in EventScripts : PullCloud(c, o, ev)
  \/ \E c \in CallIds : GetFinal(c)
  \/ \E c \in CallIds : ExitStream(c)
  \/ \E k \in 1..Len(coros) : CoroStart(k)
  \/ \E k \in 1..Len(coros), res \in BackendResults : CoroCall(k, res)
  \/ SetShutdown
  \/ ClearShutdown

vars == << env, live, call, coros, shutdown, dec, probe >>

Spec == Init /\ [][Next]_vars

\* the caller only makes create calls: the stream actions never touch one
NextCreate ==
  \/ \E c \in CallIds, kw \in KwargsSet, cl \in ClientSet : Invoke(c, "create", kw, cl)
  \/ \E c \in CallIds : Extract(c)
  \/ \E c \in CallIds : Decide(c)
  \/ \E c \in CallIds, out \in CloudOutcomes : CloudCreate(c, out)
  \/ \E c \in CallIds, resp \in DirectResponses : DirectCreateReturns(c, resp)
  \/ \E c \in CallIds : DirectCreateRaises(c)
  \/ \E k \in 1..Len(coros) : CoroStart(k)
  \/ \E k \in 1..Len(coros), res \in BackendResults : CoroCall(k, res)
  \/ SetShutdown
  \/ ClearShutdown

SpecCreate == Init /\ [][NextCreate]_vars

\* the caller only uses a bedrock-runtime client, with max_tokens on either
\* side of the two limits of _validate_max_tokens
TokenKwargs ==
  { With(BaseKw, "max_tokens", PyInt(n)) : n \in {-1, 0, 1, 200000, 200001} }

NextTokens ==
  \/ \E c \in CallIds, op \in {"create", "stream"}, kw \in TokenKwargs :
       Invoke(c, op, kw, ClientBedrock)
  \/ \E c \in CallIds : Extract(c)
  \/ \E c \in CallIds : Decide(c)
  \/ \E c \in CallIds, out \in CloudOutcomes : CloudCreate(c, out)
  \/ \E c \in CallIds, resp \in DirectResponses : DirectCreateReturns(c, resp)
  \/ \E c \in CallIds : DirectCreateRaises(c)
  \/ \E c \in CallIds : StreamOpenCloud(c)
  \/ \E c \in CallIds, ch \in DirectChunkScripts, fin \in UnderFinals, fr \in BOOLEAN :
       StreamOpenDirectReturns(c, ch, fin, fr)
  \/ \E c \in CallIds : StreamOpenDirectRaises(c)
  \/ \E c \in CallIds : Enter(c)
  \/ \E c \in CallIds : PullDirect(c)
  \/ \E c \in CallIds : PullDirectRaises(c)
  \/ \E c \in CallIds, o \in StartOutcomes, ev \in EventScripts : PullCloud(c, o, ev)
  \/ \E c \in CallIds : GetFinal(c)
  \/ \E c \in CallIds : ExitStream(c)
  \/ \E k \in 1..Len(coros) : CoroStart(k)
  \/ \E k \in 1..Len(coros), res \in BackendResults : CoroCall(k, res)
  \/ SetShutdown
  \/ ClearShutdown

SpecTokens == Init /\ [][NextTokens]_vars

SpecDecoder == InitDecoder /\ [][NextDecoder]_vars

SpecProvider == InitProvider /\ [][NextProvider]_vars

SpecPayload == InitPayload /\ [][NextPayload]_vars

SpecModelId == InitModelId /\ [][NextModelId]_vars

SpecSanitize == InitSanitize /\ [][NextSanitize]_vars

SpecTrace == InitTrace /\ [][NextTrace]_vars

SpecRegionCache == InitRegionCache /\ [][NextRegionCache]_vars

SpecProviderCache == InitProviderCache /\ [][NextProviderCache]_vars

SpecInvoke == InitInvoke /\ [][NextInvoke]_vars

SpecMeteringCache == InitMeteringCache /\ [][NextMeteringCache]_vars

SpecRegionRace == InitRegionRace /\ [][NextRegionRace]_vars

SpecOperation == InitOperation /\ [][NextOperation]_vars

\* the caller only opens streams, over provider streams and vendor streams
\* that return no fragment, empty fragments, and several fragments
FragmentScripts ==
  { << >>, << << >> >>, << << >>, << "h" >>, << "i" >> >>, << << "h" >>, << >>, << "i" >> >> }
FragmentEventScripts ==
  { << >>, << Stop(UsageCamel(10, 5)) >>,
    << Delta(<< "h" >>), Delta(<< "i" >>), Stop(UsageCamel(10, 5)) >>,
    << Delta(<< >>), Delta(<< "h" >>), Delta(<< "i" >>) >> }

NextFirstToken ==
  \/ \E c \in CallIds, cl \in ClientSet : Invoke(c, "stream", BaseKw, cl)
  \/ \E c \in CallIds : Extract(c)
  \/ \E c \in CallIds : Decide(c)
  \/ \E c \in CallIds : StreamOpenCloud(c)
  \/ \E c \in CallIds, ch \in FragmentScripts :
       StreamOpenDirectReturns(c, ch, DirectResponse("nothing", "end_turn"), FALSE)
  \/ \E c \in CallIds : Enter(c)
  \/ \E c \in CallIds : PullDirect(c)
  \/ \E c \in CallIds, ev \in FragmentEventScripts : PullCloud(c, "stream", ev)
  \/ \E c \in CallIds : ExitStream(c)

SpecFirstToken == Init /\ [][NextFirstToken]_vars


(***************************************************************************)
(* Properties.                                                              *)
(***************************************************************************)
CorosOf(c) == {k \in 1..Len(coros) : coros[k].call = c}

Count(seq, x) == Cardinality({i \in 1..Len(seq) : seq[i] = x})

\* a create call that ended on the direct transport and came back to the
\* caller with a value
DirectCreateReturned(r) ==
  /\ r.op = "create"
  /\ r.pc = "done"
  /\ r.directCalls # << >>
  /\ r.result.kind = "returned"

C1_ReturnIsProviderResponse ==
  \A c \in CallIds :
    DirectCreateReturned(call[c]) =>
      /\ call[c].response # NoResponse
      /\ call[c].result = Returned(call[c].response)

C1_ReturnStep ==
  \A c \in CallIds :
    /\ (call[c].pc # "done" /\ DirectCreateReturned(call'[c])) =>
          \A k \in 1..Len(coros') :
            coros'[k].call = c => coros'[k].pc = "scheduled" /\ ~coros'[k].sent
    /\ call[c].pc = "done" => call'[c].result = call[c].result

PerCallTraceId(r) ==
  LET um == Get(r.given, "usage_metadata", UmDict(EmptyMd))
  IN IF um.isdict THEN um.d["trace_id"] ELSE NoneV

C2_SubmitStep ==
  \A c \in CallIds :
    (call[c].pc # "done" /\ DirectCreateReturned(call'[c]) /\ ~shutdown) =>
      /\ Len(coros') = Len(coros) + 1
      /\ LET co == coros'[Len(coros')]
             resp == call'[c].response
         IN /\ co.call = c
            /\ co.event.is_streamed = FALSE
            /\ co.event.input_token_count = resp.input_tokens
            /\ co.event.output_token_count = resp.output_tokens
            /\ co.event.total_token_count = resp.input_tokens + resp.output_tokens
            /\ co.event.transaction_id = resp.id
            /\ PerCallTraceId(call'[c]) # NoneV =>
                  co.event.trace_id = PerCallTraceId(call'[c])

C2_AtMostOne ==
  \A c \in CallIds :
    call[c].op = "create" => Cardinality(CorosOf(c)) <= 1 /\ call[c].submissions <= 1

\* C2: a direct-route create that returns while the shutdown signal is not
\* set submits exactly one usage event, with the per-call trace_id,
\* is_streamed false, the response's input and output token counts, their
\* sum as total, and the response id as transaction id; a create call never
\* has more than one.
C2_OneEventPerDirectCreate ==
  []C2_AtMostOne /\ [][C2_SubmitStep]_vars

\* a direct create given trace_id t1 has returned and its one event is submitted
C2_Witness ==
  \E c \in CallIds :
    /\ DirectCreateReturned(call[c])
    /\ PerCallTraceId(call[c]) = "t1"
    /\ Cardinality(CorosOf(c)) = 1
    /\ \A k \in CorosOf(c) : coros[k].event.trace_id = "t1"
                               /\ coros[k].event.total_token_count = 15

\* C3: once the cloud-route handler of a create call has failed (payload
\* validation, invoke error, missing boto3, anything else), the failure is
\* logged once, the cloud exception is never the call's outcome, and when the
\* call is over the direct transport has been invoked exactly once, with the
\* caller's parameters minus usage_metadata; a value the call returns is the
\* direct transport's response.
C3_CloudFailureFallsBack ==
  \A c \in CallIds :
    (call[c].op = "create" /\ call[c].cloudFailed # NoneV) =>
      /\ Count(call[c].log, FallbackLog(call[c].cloudFailed)) = 1
      /\ call[c].result.origin # "cloud"
      /\ call[c].result.exc \notin CloudOutcomes \cup {"BedrockValidationError"}
      /\ call[c].pc = "done" =>
            /\ call[c].directCalls = << Without(call[c].given, "usage_metadata") >>
            /\ call[c].result.kind = "returned" =>
                  /\ call[c].result.resp = call[c].response
                  /\ call[c].response.id = "msg_direct"

\* the cloud handler failed with an invoke error and the caller got the
\* direct transport's response
C3_Witness ==
  \E c \in CallIds :
    /\ call[c].op = "create"
    /\ call[c].cloudFailed = "BedrockInvokeError"
    /\ call[c].result.kind = "returned"
    /\ call[c].result.resp.id = "msg_direct"
    /\ "usage_metadata" \in DOMAIN call[c].given

\* C4: the wrappers add no failure of their own: whenever the direct
\* provider transport has returned a value to a create call, the call ends
\* by returning it, whatever the response lacks.
C4_DirectValueIsReturned ==
  \A c \in CallIds :
    (call[c].op = "create" /\ call[c].pc = "done" /\ call[c].response.src = "direct") =>
      call[c].result = Returned(call[c].response)

\* a failed backend call whose coroutine has ended
FailedDelivery(co) ==
  co.pc = "done" /\ co.sent /\ co.result \in {"raise", "none", "status_500"}

C5_NothingEscapes == \A k \in 1..Len(coros) : ~coros[k].escaped

C5_DeliveryStep ==
  \A k \in 1..Len(coros) :
    (coros[k].pc = "calling" /\ k <= Len(coros') /\ coros'[k].pc = "done") =>
      /\ call' = call
      /\ ~coros'[k].escaped
      /\ coros'[k].result = "raise" =>
            coros'[k].log = coros[k].log \o
               (IF shutdown THEN << >> ELSE << "warn_metering_error", "warn_traceback" >>)
      /\ (coros'[k].result \in {"none", "status_500"}
            /\ coros[k].kind \in {"create", "stream"}) =>
            coros'[k].log = coros[k].log \o << "debug_result", "warn_no_success" >>
      /\ (coros'[k].result \in {"none", "status_500"}
            /\ coros[k].kind \in {"bedrock_create", "bedrock_stream"}) =>
            coros'[k].log = coros[k].log \o << "debug_result" >>

SkipLogs == {"warn_skip_async_shutdown", "warn_skip_metering_shutdown"}

Skips(r) == Cardinality({i \in 1..Len(r.log) : r.log[i] \in SkipLogs})

C6_SubmitStep ==
  \A c \in CallIds :
    (call'[c].submissions = call[c].submissions + 1 /\ shutdown) =>
      /\ coros' = coros
      /\ Len(call'[c].log) = Len(call[c].log) + 1
      /\ call'[c].log[Len(call'[c].log)] \in SkipLogs
      /\ call'[c].op = "create" =>
            /\ call'[c].response # NoResponse
            /\ call'[c].result = Returned(call'[c].response)

C6_DroppedForGood ==
  \A c \in CallIds : Cardinality(CorosOf(c)) + Skips(call[c]) = call[c].submissions

C7_OneDispatchPerStream ==
  \A c \in CallIds : call[c].op = "stream" => call[c].submissions <= 1

\* C8: usage_metadata is out of the call parameters before the route is
\* chosen; every invocation of the direct transport, first or fallback, gets
\* the caller's parameters minus usage_metadata and nothing else changed; no
\* payload sent to the cloud transport carries usage_metadata.
C8_UsageMetadataNeverForwarded ==
  \A c \in CallIds :
    /\ call[c].pc \notin {"idle", "called"} => "usage_metadata" \notin DOMAIN call[c].kwargs
    /\ \A i \in 1..Len(call[c].directCalls) :
         /\ "usage_metadata" \notin DOMAIN call[c].directCalls[i]
         /\ call[c].directCalls[i] = Without(call[c].given, "usage_metadata")
    /\ \A i \in 1..Len(call[c].cloudCalls) :
         "usage_metadata" \notin DOMAIN call[c].cloudCalls[i]

\* a call given usage_metadata has reached both the cloud transport and,
\* falling back, the direct transport
C8_Witness ==
  \E c \in CallIds :
    /\ "usage_metadata" \in DOMAIN call[c].given
    /\ call[c].cloudCalls # << >>
    /\ call[c].directCalls # << >>

\* C9: a failure of the cloud stream, when it is started or while fragments
\* are pulled, is not surfaced to the caller.
C9_CloudStreamFailureHidden ==
  \A c \in CallIds : \A x \in call[c].stream.surfaced : x.origin # "cloud"

\* the texts of the non-empty content_block_delta events of w, in order
DeltaTexts(w) ==
  LET ds == SelectSeq(w, LAMBDA e : e.type = "content_block_delta" /\ e.text # << >>)
  IN [i \in 1..Len(ds) |-> ds[i].text]

RECURSIVE Concat(_)
Concat(ts) == IF ts = << >> THEN << >> ELSE Head(ts) \o Concat(Tail(ts))

\* the usage of the last message_stop of w, NoUsage when there is none
LastStopUsage(w) ==
  LET I == {i \in 1..Len(w) : w[i].type = "message_stop"}
  IN IF I = {} THEN NoUsage ELSE w[CHOOSE i \in I : \A j \in I : j <= i].u

IsPrefix(a, b) == Len(a) <= Len(b) /\ SubSeq(b, 1, Len(a)) = a

\* a vendor stream every event of which can be decoded
Decodable(w) ==
  \A i \in 1..Len(w) : w[i].type \notin {"bad_utf8", "not_object", "transport_error"}

CloudStream(c) == call[c].stream.kind = "bedrock"

\* once the final message of a BedrockStreamWrapper exists, no step of the
\* program (get_final_message, exhaustion of text_stream, __exit__) replaces
\* it, regenerates its id or creates another one
C11_KeepStep ==
  \A c \in CallIds :
     (CloudStream(c) /\ call[c].stream.final_message # NoResponse)
        => /\ call'[c].stream.final_message = call[c].stream.final_message
           /\ call'[c].stream.response_id = call[c].stream.response_id
           /\ call'[c].stream.created = call[c].stream.created

\* the message is created at most once, it carries the id generated with it,
\* and every get_final_message has returned that very message
C11_CreatedOnce ==
  \A c \in CallIds :
     CloudStream(c) =>
        /\ call[c].stream.created <= 1
        /\ (call[c].stream.created = 0) = (call[c].stream.final_message = NoResponse)
        /\ call[c].stream.final_message # NoResponse =>
              call[c].stream.final_message.id = call[c].stream.response_id
        /\ \A i \in 1..Len(call[c].stream.got_final) :
              call[c].stream.got_final[i] = call[c].stream.final_message

\* C11: the final message of a cloud stream is created at most once per
\* stream, and after it exists every later trigger (get_final_message,
\* stream exhaustion, context exit) keeps and returns the same message with
\* the same id, text and token counts.
C11_FinalizeIdempotent == [][C11_KeepStep]_vars /\ []C11_CreatedOnce

\* a cloud stream whose final message was created by get_final_message
\* before the stream was drained, and which was then exhausted and exited
\* twice: three later triggers, one message
C11_Witness ==
  \E c \in CallIds :
     /\ CloudStream(c)
     /\ call[c].stream.created = 1
     /\ Len(call[c].stream.got_final) = 1
     /\ call[c].stream.stops >= 1
     /\ call[c].stream.exits = 2
     /\ call[c].stream.accumulated_text # call[c].stream.final_message.text

(***************************************************************************)
(* C12.  Every completed call is metered.                                   *)
(***************************************************************************)
\* a create call that came back to the caller with a value, on any route,
\* without the shutdown signal having cut the submission short
CreateCompleted(r) ==
  /\ r.op = "create"
  /\ r.pc = "done"
  /\ r.result.kind = "returned"
  /\ Skips(r) = 0

\* a stream the caller has read to its end and whose context has been left,
\* again without the shutdown signal having cut the submission short
StreamCompleted(r) ==
  /\ r.op = "stream"
  /\ r.stream.stops >= 1
  /\ r.stream.exits >= 1
  /\ Skips(r) = 0

C12_CreateSubmitsOnce ==
  \A c \in CallIds : CreateCompleted(call[c]) => Cardinality(CorosOf(c)) = 1

\* C12: every call that completes and returns to the caller while no
\* shutdown is signalled (direct create, cloud-routed create, create after
\* fallback, every fully drained stream) has had its usage event submitted
\* to the background runner, whatever the delivery does later.
C12_CompletedCallIsSubmitted ==
  /\ C12_CreateSubmitsOnce
  /\ \A c \in CallIds : StreamCompleted(call[c]) => Cardinality(CorosOf(c)) >= 1

(***************************************************************************)
(* C13.  detect_provider: precedence, totality, determinism.                *)
(***************************************************************************)
\* the client is a boto3 bedrock-runtime client
IsBedrockRuntime(client) ==
  /\ client.present /\ client.has_meta
  /\ client.service_model = "named"
  /\ client.service_name = "bedrock-runtime"

\* the client's own base_url, if it is an object that has one
OwnBaseUrl(client) ==
  IF client.present /\ client.has_base_url THEN client.base_url ELSE NoUrl

\* the URL holds "amazonaws.com" in some capitalisation (by the way the
\* URLs handed to detect_provider are put together)
MentionsAws(url) ==
  \E p \in UrlPrefixes, m \in AwsSpellings, x \in UrlSuffixes : url = p \o m \o x

ExpectedProvider(client, base_url) ==
  IF IsBedrockRuntime(client) THEN "BEDROCK"
  ELSE IF MentionsAws(base_url) \/ MentionsAws(OwnBaseUrl(client)) THEN "BEDROCK"
  ELSE "ANTHROPIC"

Routed(r) == r.pc \in {"direct", "streaming", "done"}

\* C14: while REVENIUM_BEDROCK_DISABLE is "1", no create or stream call
\* invokes provider detection or the cloud handlers, every call that got
\* past routing went to the direct transport, and every usage event
\* submitted carries the direct provider tag, also for a bedrock-runtime
\* client or an amazonaws.com base URL.
C14_DisabledNeverCloud ==
  env.bedrock_disable =>
     \A c \in CallIds :
        /\ call[c].detections = 0
        /\ call[c].cloudAttempts = 0
        /\ call[c].cloudCalls = << >>
        /\ call[c].stream.kind # "bedrock"
        /\ call[c].stream.it.transportCalls = 0
        /\ (Routed(call[c]) /\ call[c].pc # "direct") => Len(call[c].directCalls) = 1
        /\ \A k \in CorosOf(c) : /\ coros[k].event.provider = "ANTHROPIC"
                                 /\ coros[k].kind \in {"create", "stream"}

\* with the switch on, a create call on a bedrock-runtime client has come
\* back from the direct transport and its event is tagged ANTHROPIC
C14_Witness ==
  /\ env.bedrock_disable
  /\ \E c \in CallIds :
        /\ call[c].client = ClientBedrock
        /\ call[c].op = "create"
        /\ call[c].pc = "done"
        /\ call[c].result.kind = "returned"
        /\ call[c].result.resp.src = "direct"
        /\ \E k \in CorosOf(c) : coros[k].event.provider = "ANTHROPIC"

(***************************************************************************)
(* C15.  A successful cloud route is the only route taken.                  *)
(***************************************************************************)
\* the cloud-route handler was entered and came back without an exception
CloudHandlerSucceeded(r) == r.cloudAttempts >= 1 /\ r.cloudFailed = NoneV

ProducedByCloud(r) ==
  IF r.op = "create" THEN r.response.src = "bedrock" ELSE r.stream.kind = "bedrock"

WellFormedMessages(messages) ==
  /\ messages.type = "list"
  /\ Len(messages.items) >= 1
  /\ \A i \in 1..Len(messages.items) :
        /\ messages.items[i].type = "dict"
        /\ {"role", "content"} \subseteq DOMAIN messages.items[i].d

\* max_tokens is passed and is an integer between 1 and 200000
IntegerInRange(kw) ==
  /\ "max_tokens" \in DOMAIN kw
  /\ kw["max_tokens"].type = "int"
  /\ kw["max_tokens"].tenths >= 10 * 1 /\ kw["max_tokens"].tenths <= 10 * 200000

\* temperature and top_p, where passed, are numbers in [0, 1]; top_k, where
\* passed, is a positive integer
OptionsInRange(kw) ==
  /\ \A k \in {"temperature", "top_p"} \cap DOMAIN kw :
        kw[k].type \in {"int", "float"} /\ kw[k].tenths \in 0..10
  /\ "top_k" \in DOMAIN kw => (kw["top_k"].type = "int" /\ kw["top_k"].tenths >= 10)

\* C17: for a non-empty list of messages that each carry role and content
\* and an integer max_tokens between 1 and 200000 (temperature and top_p in
\* [0,1], top_k a positive integer), create_bedrock_payload succeeds and the
\* envelope holds that max_tokens, that list of messages in its order, and
\* the tag "bedrock-2023-05-31" as anthropic_version unless the caller
\* passes another one.
C17_PayloadFromValidInput ==
  probe.fn = "create_bedrock_payload" =>
     \A i \in 1..Len(probe.outs) :
        (WellFormedMessages(probe.messages) /\ IntegerInRange(probe.kwargs)
           /\ OptionsInRange(probe.kwargs)) =>
           /\ probe.outs[i].ok
           /\ probe.outs[i].payload["max_tokens"] = probe.kwargs["max_tokens"]
           /\ probe.outs[i].payload["messages"] = probe.messages
           /\ probe.outs[i].payload["anthropic_version"] =
                 (IF "anthropic_version" \in DOMAIN probe.kwargs
                    THEN probe.kwargs["anthropic_version"]
                    ELSE "bedrock-2023-05-31")

\* two messages, max_tokens at the upper limit 200000, a temperature and no
\* version override: the envelope was built
C17_Witness ==
  /\ probe.fn = "create_bedrock_payload"
  /\ Len(probe.outs) >= 1
  /\ probe.messages = PyList(<< Msg, MsgAssistant >>)
  /\ "max_tokens" \in DOMAIN probe.kwargs /\ probe.kwargs["max_tokens"] = PyInt(200000)
  /\ "temperature" \in DOMAIN probe.kwargs /\ probe.kwargs["temperature"] = PyFloat(5)
  /\ DOMAIN probe.kwargs = {"max_tokens", "temperature"}
  /\ probe.outs[1].ok
  /\ probe.outs[1].payload["anthropic_version"] = "bedrock-2023-05-31"

(***************************************************************************)
(* C18.  An out-of-range max_tokens never reaches the cloud transport.      *)
(***************************************************************************)
\* the call was made with an integer max_tokens <= 0 or > 200000
MaxTokensOutOfRange(r) ==
  /\ r.pc # "idle"
  /\ "max_tokens" \in DOMAIN r.given
  /\ r.given["max_tokens"].type = "int"
  /\ \/ r.given["max_tokens"].tenths <= 10 * 0
     \/ r.given["max_tokens"].tenths > 10 * 200000

Offenders(messages) ==
  { i - 1 : i \in { k \in 1..Len(messages.items) :
                      \/ messages.items[k].type # "dict"
                      \/ ~({"role", "content"} \subseteq DOMAIN messages.items[k].d) } }

Malformed(messages) ==
  \/ messages.type # "list"
  \/ messages.items = << >>
  \/ Offenders(messages) # {}

\* C19: create_bedrock_payload rejects with BedrockValidationError any
\* messages value that is not a list, is empty, or has an element that is
\* not a mapping or lacks role or content; for a bad element the error names
\* the index of the first offending message; no payload is produced.
C19_MalformedMessagesRejected ==
  probe.fn = "create_bedrock_payload" =>
     \A i \in 1..Len(probe.outs) :
        Malformed(probe.messages) =>
           /\ ~probe.outs[i].ok
           /\ probe.outs[i].exc = "BedrockValidationError"
           /\ probe.outs[i].payload = NoPayload
           /\ (probe.messages.type = "list" /\ probe.messages.items # << >>) =>
                 /\ probe.outs[i].index \in Offenders(probe.messages)
                 /\ \A j \in Offenders(probe.messages) : probe.outs[i].index <= j

\* a list whose second element lacks role and whose third is not a mapping,
\* passed with a valid max_tokens: the error names index 1
C19_Witness ==
  /\ probe.fn = "create_bedrock_payload"
  /\ probe.messages = PyList(<< Msg, MsgNoRole, NotADict >>)
  /\ probe.kwargs = [max_tokens |-> PyInt(100)]
  /\ Len(probe.outs) >= 1
  /\ ~probe.outs[1].ok
  /\ probe.outs[1].index = 1
  /\ probe.outs[1].error = "missing required 'role' field"

(***************************************************************************)
(* C20.  Model-id mapping.                                                  *)
(***************************************************************************)
\* the ids the tests pin down for three mapped names
DocumentedOpus3 ==
  << << "c", "l", "a", "u", "d", "e", "-", "3", "-", "o", "p", "u", "s", "-",
        "2", "0", "2", "4", "0", "2", "2", "9" >>,
     << "a", "n", "t", "h", "r", "o", "p", "i", "c", ".", "c", "l", "a", "u",
        "d", "e", "-", "3", "-", "o", "p", "u", "s", "-", "2", "0", "2", "4",
        "0", "2", "2", "9", "-", "v", "1", ":", "0" >> >>
DocumentedHaiku3 ==
  << << "c", "l", "a", "u", "d", "e", "-", "3", "-", "h", "a", "i", "k", "u",
        "-", "2", "0", "2", "4", "0", "3", "0", "7" >>,
     << "u", "s", ".", "a", "n", "t", "h", "r", "o", "p", "i", "c", ".", "c",
        "l", "a", "u", "d", "e", "-", "3", "-", "5", "-", "h", "a", "i", "k",
        "u", "-", "2", "0", "2", "4", "1", "0", "2", "2", "-", "v", "1", ":",
        "0" >> >>

MappedNames == { row[1] : row \in ModelMap }

\* C20: _model_id never fails and its result depends on the name alone:
\* a name of the mapping table gives the id the table fixes for it (one id
\* per name), every other name n gives "anthropic." followed by n.
C20_ModelIdMapping ==
  probe.fn = "_model_id" =>
     /\ Cardinality(MappedNames) = Cardinality(ModelMap)
     /\ {DocumentedOpus3, DocumentedHaiku3} \subseteq ModelMap
     /\ \A i \in 1..Len(probe.outs) :
           /\ probe.model_name \in MappedNames =>
                 << probe.model_name, probe.outs[i] >> \in ModelMap
           /\ probe.model_name \notin MappedNames =>
                 /\ Len(probe.outs[i]) = Len(AnthropicDot) + Len(probe.model_name)
                 /\ SubSeq(probe.outs[i], 1, Len(AnthropicDot)) = AnthropicDot
                 /\ SubSeq(probe.outs[i], Len(AnthropicDot) + 1, Len(probe.outs[i]))
                       = probe.model_name
           /\ probe.outs[i] = probe.outs[1]

\* "custom-model", which the table does not hold, was mapped twice
C20_Witness ==
  /\ probe.fn = "_model_id"
  /\ probe.model_name = CustomModel
  /\ Len(probe.outs) = 2
  /\ probe.outs[2] = AnthropicDot \o CustomModel

(***************************************************************************)
(* C21: _sanitize_metadata and nesting depth.                               *)
(***************************************************************************)
\* what the claim says of one kept mapping of leaves: scalars stay as they
\* are, a list or a tuple becomes its string form (and so does any value of
\* another type)
KeptLeaves(inner) ==
  PyDict([k \in DOMAIN inner.d |->
            IF inner.d[k] \in ScalarValues THEN inner.d[k] ELSE StrOf(inner.d[k])])

\* the nest the claim expects when the innermost mapping sits at depth
\* first + n, the outermost mapping of the nest at depth first
ExpectedNest(first, n, inner) ==
  IF first + n <= 5 THEN Nest(n, KeptLeaves(inner)) ELSE Nest(6 - first, EmptyDict)

\* C21: _sanitize_metadata never raises and always returns a mapping; with the
\* default maximum depth 5 (the top mapping being depth 0) the mappings at
\* depth 5 or less are kept and sanitized, a mapping at depth 6 is replaced by
\* the empty mapping, every list or tuple entry of a kept mapping becomes its
\* string form and every str/int/float/bool/None entry is unchanged.
C21_SanitizeDepthBound ==
  probe.fn = "_sanitize_metadata" =>
    \A i \in 1..Len(probe.outs) :
      /\ probe.outs[i].type = "dict"
      /\ \A n \in 0..MaxNesting, inner \in InnerDicts :
           /\ probe.metadata = Nest(n, inner)
                => probe.outs[i] = ExpectedNest(0, n, inner)
           /\ probe.metadata = Beside(Nest(n, inner))
                => probe.outs[i] =
                     PyDict([nested |-> ExpectedNest(1, n, inner),
                             trace_id |-> PyStr(<< "t", "1" >>),
                             pair |-> StrOf(PairTuple)])

\* a mapping nested seven deep around a list came back cut at depth 6
C21_Witness ==
  /\ probe.fn = "_sanitize_metadata"
  /\ probe.metadata = Nest(7, PyDict([leaf |-> TagsList]))
  /\ Len(probe.outs) > 0
  /\ probe.outs[1] = Nest(6, EmptyDict)

(***************************************************************************)
(* C22: precedence of the sources of a trace field.                         *)
(***************************************************************************)
\* the per-call metadata holds a value under key
Supplied(usage_metadata, key) ==
  key \in DOMAIN usage_metadata /\ usage_metadata[key] # PyNone

\* the value the environment gives to a field; unset is None, 0 for the
\* retry number
AmbientValue(environ, field) ==
  CASE field = "environment" -> GetEnvironment(environ)
    [] field = "region" -> GetRegion(environ)
    [] field = "credential_alias" -> GetCredentialAlias(environ)
    [] field = "trace_type" -> GetTraceType(environ)
    [] field = "trace_name" -> GetTraceName(environ)
    [] field = "parent_transaction_id" -> GetParentTransactionId(environ)
    [] field = "transaction_name" -> GetTransactionName(environ)
    [] field = "retry_number" -> GetRetryNumber(environ)

\* C22: every trace field is the per-call value under its camelCase key when
\* one is supplied, else the per-call value under its snake_case key when one
\* is supplied, else the value of its environment variable, else unset (0 for
\* the retry number), whatever the other fields hold.
C22_PerCallValueWins ==
  probe.fn = "_extract_trace_fields" =>
    \A i \in 1..Len(probe.outs), row \in TraceRows :
      probe.outs[i][row.field] =
        IF Supplied(probe.usage_metadata, row.camel)
          THEN probe.usage_metadata[row.camel]
        ELSE IF Supplied(probe.usage_metadata, row.snake)
          THEN probe.usage_metadata[row.snake]
        ELSE AmbientValue(probe.environ, row.field)

\* the precedence the code does keep: a text field takes the first non-empty
\* text among camelCase key, snake_case key and environment; the retry number
\* takes whatever the first present key holds, None included
C22_NonEmptyValueWins ==
  probe.fn = "_extract_trace_fields" =>
    \A i \in 1..Len(probe.outs) :
      /\ \A row \in TextRows :
           LET camel == MdGet(probe.usage_metadata, row.camel)
               snake == MdGet(probe.usage_metadata, row.snake)
           IN  probe.outs[i][row.field] =
                 IF camel.type = "str" /\ camel.items # << >> THEN camel
                 ELSE IF snake.type = "str" /\ snake.items # << >> THEN snake
                 ELSE AmbientValue(probe.environ, row.field)
      /\ probe.outs[i].retry_number =
           IF "retryNumber" \in DOMAIN probe.usage_metadata
             THEN probe.usage_metadata["retryNumber"]
           ELSE IF "retry_number" \in DOMAIN probe.usage_metadata
             THEN probe.usage_metadata["retry_number"]
           ELSE AmbientValue(probe.environ, "retry_number")

(***************************************************************************)
(* C28: the trace type of a usage event.                                    *)
(***************************************************************************)
\* unset, or at most 128 characters of [A-Za-z0-9_-]
WellFormedTraceType(v) ==
  \/ v = PyNone
  \/ /\ v.type = "str"
     /\ Len(v.items) <= 128
     /\ \A i \in 1..Len(v.items) :
          \/ v.items[i] \in Digits \cup { "_", "-" }
          \/ \E k \in 1..26 : v.items[i] \in { UpperLetters[k], LowerLetters[k] }

\* C28: the trace type resolved for a usage event is unset or a string of at
\* most 128 characters of [A-Za-z0-9_-], whether it came from the camelCase
\* key, the snake_case key or the environment.
C28_TraceTypeWellFormed ==
  probe.fn = "_extract_trace_fields" =>
    \A i \in 1..Len(probe.outs) : WellFormedTraceType(probe.outs[i].trace_type)

\* what holds: a trace type that came from the environment is well formed
C28_AmbientTraceTypeWellFormed ==
  probe.fn = "_extract_trace_fields" =>
    \A i \in 1..Len(probe.outs) :
      ( /\ ~ Truthy(MdGet(probe.usage_metadata, "traceType"))
        /\ ~ Truthy(MdGet(probe.usage_metadata, "trace_type")) )
        => WellFormedTraceType(probe.outs[i].trace_type)

(***************************************************************************)
(* C23: the region client cache.                                            *)
(***************************************************************************)
CachedRegions(cache) == { cache[i].region : i \in 1..Len(cache) }

\* C23: every get_bedrock_client call leaves at most CacheSize entries in the
\* cache; a call for a cached region returns the cached client, constructs
\* none and leaves the cache and its order as they were; a call for a new
\* region on a full cache removes the first-inserted entry and no other, and
\* on a cache with room removes nothing; entries keep their insertion order.
C23_RegionCacheFifo ==
  [][ (probe.fn = "get_bedrock_client" /\ probe' # probe) =>
        LET before == probe.cache
            after == probe'.cache
            asked == probe'.last.region
            result == probe'.last.result
            key == Strip(asked.items)
        IN  /\ Len(after) <= CacheSize
            /\ Cardinality(CachedRegions(after)) = Len(after)
            /\ (asked.type = "str" /\ key \in CachedRegions(before)) =>
                 /\ after = before
                 /\ probe'.made = probe.made
                 /\ result.kind = "returned"
                 /\ \E i \in 1..Len(before) :
                      before[i].region = key /\ before[i].client = result.client
            /\ (asked.type = "str" /\ key # << >> /\ key \notin CachedRegions(before)) =>
                 LET kept == IF Len(before) = CacheSize THEN Tail(before) ELSE before
                 IN  /\ SubSeq(after, 1, Len(kept)) = kept
                     /\ Len(after) <= Len(kept) + 1
                     /\ result.kind = "returned" =>
                          /\ after = Append(kept, [region |-> key, client |-> result.client])
                          /\ probe'.made = probe.made + 1
                          /\ \A i \in 1..Len(before) : before[i].client # result.client
      ]_vars

\* the cache is full, more clients were constructed than it holds, and the
\* last call was answered from the cache
C23_Witness ==
  /\ probe.fn = "get_bedrock_client"
  /\ Len(probe.cache) = CacheSize
  /\ probe.made > CacheSize
  /\ probe.last.result.kind = "returned"
  /\ probe.last.result.client < probe.made

(***************************************************************************)
(* C24: the per-thread provider cache.                                      *)
(***************************************************************************)
\* C24: a call of get_or_detect_provider on a thread that has a stored result
\* and does not force re-detection returns the stored provider whatever its
\* arguments are and stores nothing; the first call of a thread, and every
\* call with force_redetect, returns the provider detected from its own
\* arguments and stores it for that thread; no call changes what another
\* thread has stored.
C24_PerThreadProviderCache ==
  [][ (probe.fn = "get_or_detect_provider" /\ probe' # probe) =>
        LET lookup == probe'.last
            before == probe.caches[lookup.thread]
            after == probe'.caches[lookup.thread]
        IN  /\ \A t \in Threads \ { lookup.thread } : probe'.caches[t] = probe.caches[t]
            /\ (before.detection_attempted /\ ~ lookup.force_redetect) =>
                 /\ lookup.result = before.detected_provider
                 /\ after = before
            /\ (~ before.detection_attempted \/ lookup.force_redetect) =>
                 /\ lookup.result = ExpectedProvider(lookup.client, lookup.base_url)
                 /\ after.detected_provider = lookup.result
                 /\ after.detection_attempted
      ]_vars

\* thread t1 was answered ANTHROPIC from its cache for a bedrock-runtime
\* client while thread t2 holds BEDROCK
C24_Witness ==
  /\ probe.fn = "get_or_detect_provider"
  /\ probe.last.thread = "t1"
  /\ probe.last.client = ClientBedrock
  /\ ~ probe.last.force_redetect
  /\ probe.last.result = "ANTHROPIC"
  /\ probe.caches["t2"].detected_provider = "BEDROCK"

(***************************************************************************)
(* C25: shutdown between submission and the start of the coroutine.         *)
(***************************************************************************)
\* C25: a coroutine that was handed to the background runner (the submission
\* check found the signal clear) and that starts while the signal is set ends
\* at once with the skip warning: it never calls the metering backend and
\* nothing escapes it, then or later.
C25_ShutdownBeforeStartSkipsBackend ==
  [][ \A k \in 1..Len(coros) :
        /\ (coros[k].pc = "scheduled" /\ shutdown /\ coros'[k] # coros[k]) =>
             /\ coros'[k].pc = "done"
             /\ ~ coros'[k].sent
             /\ ~ coros'[k].escaped
             /\ coros'[k].log = << "warn_skip_metering_shutdown" >>
        /\ (coros[k].pc = "done" /\ ~ coros[k].sent) => coros'[k] = coros[k]
    ]_vars

\* a submitted coroutine found the signal set when it started and sent nothing
C25_Witness ==
  \E k \in 1..Len(coros) :
    /\ shutdown
    /\ coros[k].pc = "done"
    /\ ~ coros[k].sent
    /\ coros[k].log = << "warn_skip_metering_shutdown" >>

(***************************************************************************)
(* C26: the provider classification of one call.                            *)
(***************************************************************************)
\* the call has not been classified yet
Unclassified(r) == r.provider = NoneV

StopVocabulary == { "END", "END_SEQUENCE", "TOKEN_LIMIT", "ERROR" }

\* C27: the stop reason of every usage event built on the direct route, by
\* create or by stream, is one of END, END_SEQUENCE, TOKEN_LIMIT and ERROR.
C27_StopReasonInVocabulary ==
  \A k \in 1..Len(coros) :
    coros[k].kind \in {"create", "stream"} => coros[k].event.stop_reason \in StopVocabulary

\* what holds: the four known provider reasons are mapped as the table says,
\* and a create event built from any other or a missing reason carries the
\* provider's own word "end_turn"
C27_KnownReasonsMapped ==
  \A k \in 1..Len(coros) :
    coros[k].kind \in {"create", "stream"} =>
      /\ coros[k].event.stop_reason \in StopVocabulary \cup { "end_turn" }
      /\ coros[k].kind = "create" =>
           LET reason == call[coros[k].call].response.stop_reason
           IN  coros[k].event.stop_reason =
                 CASE reason = "end_turn" -> "END"
                   [] reason = "tool_use" -> "END_SEQUENCE"
                   [] reason = "max_tokens" -> "TOKEN_LIMIT"
                   [] reason = "content_filter" -> "ERROR"
                   [] OTHER -> "end_turn"

(***************************************************************************)
(* C29: the token counts of bedrock_invoke.                                 *)
(***************************************************************************)
\* the count under the first of three spellings that the usage object holds,
\* 0 when it holds none of them
FirstPresent(usage, camel, snake, legacy) ==
  IF camel \in DOMAIN usage THEN usage[camel]
  ELSE IF snake \in DOMAIN usage THEN usage[snake]
  ELSE IF legacy \in DOMAIN usage THEN usage[legacy]
  ELSE 0

\* the calls of bedrock_invoke that returned
InvokeReturns ==
  IF probe.fn = "bedrock_invoke"
    THEN { i \in 1..Len(probe.outs) : probe.outs[i].kind = "returned" }
    ELSE {}

\* C29: bedrock_invoke takes the input count from the first spelling of it
\* that the usage object holds (inputTokens, input_tokens, prompt_tokens) and
\* the output count from the first spelling of it that the usage object holds
\* (outputTokens, output_tokens, completion_tokens), each on its own, and 0
\* when the object holds no spelling of that count.
C29_EachCountFromFirstSpelling ==
  \A i \in InvokeReturns :
    LET usage == probe.args.body.usage
    IN  /\ probe.outs[i].input_tokens =
             FirstPresent(usage, "inputTokens", "input_tokens", "prompt_tokens")
        /\ probe.outs[i].output_tokens =
             FirstPresent(usage, "outputTokens", "output_tokens", "completion_tokens")

\* what holds: both counts come from one pair of spellings, the first pair in
\* the order camelCase, snake_case, legacy in which a count is not 0
C29_CountsFromFirstNonZeroPair ==
  \A i \in InvokeReturns :
    LET usage == probe.args.body.usage
        pairs == << << "inputTokens", "outputTokens" >>,
                    << "input_tokens", "output_tokens" >>,
                    << "prompt_tokens", "completion_tokens" >> >>
        nonzero(p) == Get(usage, pairs[p][1], 0) # 0 \/ Get(usage, pairs[p][2], 0) # 0
        \* the legacy pair is the last resort
        chosen == IF nonzero(1) THEN 1 ELSE IF nonzero(2) THEN 2 ELSE 3
    IN  /\ probe.outs[i].input_tokens = Get(usage, pairs[chosen][1], 0)
        /\ probe.outs[i].output_tokens = Get(usage, pairs[chosen][2], 0)

(***************************************************************************)
(* C30: the exceptions of bedrock_invoke.                                   *)
(***************************************************************************)
\* by the way the arguments are put together: the model is not a non-blank
\* str, the payload is not a dict, or the region in force is not a non-blank
\* str
InvalidInvokeArgs(a) ==
  \/ a.model \notin { PyStr(OpusName), PyStr(<< " " >> \o CustomModel \o << " " >>) }
  \/ a.payload \notin { PyDict([messages |-> MsgsOk]), PyDict(NoKw) }
  \/ a.region \in { PyStr(<< " ", " " >>), PyInt(5) }
  \/ a.region \in { PyNone, PyStr(<< >>) } /\ a.environ = [AWS_REGION |-> PyStr(<< >>)]

\* the model name and the region a message has to name
NamedModel(a) == IF a.model = PyStr(OpusName) THEN OpusName ELSE CustomModel
NamedRegion(a) ==
  IF a.region = PyStr(UsWest2Full) THEN UsWest2Full
  ELSE IF a.environ = NoKw THEN DefaultRegion
  ELSE EuWest1

\* C30: with an invalid model, payload or region bedrock_invoke raises
\* BedrockValidationError and has neither looked up a client nor called the
\* transport; otherwise a missing boto3 comes out as ImportError, and every
\* other failure of the lookup, of the transport call or of reading and
\* parsing the response comes out as BedrockInvokeError with a message that
\* holds the model name and the region; nothing else is ever raised, and
\* without a failure the call returns.
C30_InvokeErrors ==
  probe.fn = "bedrock_invoke" =>
    \A i \in 1..Len(probe.outs) :
      LET a == probe.args
          out == probe.outs[i]
          failed == \/ a.lookup # "ok"
                    \/ a.transport # "ok"
                    \/ a.body.shape # "object"
      IN  /\ out.kind = "raised" =>
               out.exc \in { "BedrockValidationError", "BedrockInvokeError", "ImportError" }
          /\ InvalidInvokeArgs(a) =>
               /\ out.kind = "raised" /\ out.exc = "BedrockValidationError"
               /\ out.lookups = 0 /\ out.invocations = 0
          /\ (~ InvalidInvokeArgs(a) /\ a.lookup = "ImportError") =>
               out.kind = "raised" /\ out.exc = "ImportError" /\ out.invocations = 0
          /\ (~ InvalidInvokeArgs(a) /\ a.lookup # "ImportError" /\ failed) =>
               /\ out.kind = "raised" /\ out.exc = "BedrockInvokeError"
               /\ Contains(NamedModel(a), out.message)
               /\ Contains(NamedRegion(a), out.message)
          /\ (~ InvalidInvokeArgs(a) /\ ~ failed) => out.kind = "returned"

\* a call with valid arguments whose transport call raised came out as
\* BedrockInvokeError
C30_Witness ==
  /\ probe.fn = "bedrock_invoke"
  /\ Len(probe.outs) > 0
  /\ ~ InvalidInvokeArgs(probe.args)
  /\ probe.args.lookup = "ok"
  /\ probe.args.transport = "ClientError"
  /\ probe.outs[1].exc = "BedrockInvokeError"
  /\ probe.outs[1].invocations = 1

(***************************************************************************)
(* C31.  Malformed chunks of the cloud event stream.                        *)
(***************************************************************************)
\* the events of w that are not malformed: chunks that decode to an object
WellFormedEvents(w) ==
  SelectSeq(w, LAMBDA e : e.type \notin {"no_chunk", "no_bytes", "bad_utf8",
                                         "bad_json", "not_object"})

\* a vendor stream that itself never fails while it is iterated
TransportHolds(w) == \A i \in 1..Len(w) : w[i].type # "transport_error"

\* C31: a malformed chunk (an event without chunk or bytes, bytes that are
\* not UTF-8, text that is not JSON, JSON that is not an object) is skipped:
\* over a vendor stream that does not fail the iterator never raises, it
\* yields the texts of the well-formed deltas in order, and once it is
\* exhausted it has processed every well-formed event, those after a
\* malformed chunk included.
C31_MalformedChunkSkipped ==
  TransportHolds(dec.wire) =>
    /\ dec.err = NoneV
    /\ IsPrefix(dec.yielded, DeltaTexts(WellFormedEvents(dec.wire)))
    /\ dec.ended =>
          /\ dec.yielded = DeltaTexts(WellFormedEvents(dec.wire))
          /\ dec.it.input_tokens = StopInputTokens(LastStopUsage(dec.wire))
          /\ dec.it.output_tokens = StopOutputTokens(LastStopUsage(dec.wire))

\* what holds: events without a chunk or without bytes and bytes that are not
\* JSON are skipped, the events after them are processed
C31_UnparsedChunkSkipped ==
  (\A i \in 1..Len(dec.wire) :
      dec.wire[i].type \notin {"bad_utf8", "not_object", "transport_error"}) =>
    /\ dec.err = NoneV
    /\ dec.ended => dec.yielded = DeltaTexts(WellFormedEvents(dec.wire))

(***************************************************************************)
(* C32.  The cache of metering client handles.                              *)
(***************************************************************************)
\* C32: the cache of per-worker metering client handles is size-bounded:
\* whatever the number of worker threads that delivered, it never holds more
\* than a fixed number of handles (here the capacity the region cache has),
\* the oldest entry being evicted when it is full.
C32_MeteringCacheBounded ==
  probe.fn = "_get_thread_safe_client" => Len(probe.cache) <= CacheSize

\* what holds: nothing is ever evicted, the cache holds one entry for every
\* thread that was handed a client, in the order of their first lookup
C32_OneEntryPerWorkerThread ==
  probe.fn = "_get_thread_safe_client" =>
    LET served == SelectSeq(probe.outs, LAMBDA o : o.client # NoneV)
        first(i) == \A j \in 1..(i - 1) : served[j].thread_id # served[i].thread_id
        firsts == { i \in 1..Len(served) : first(i) }
    IN  /\ Len(probe.cache) = Cardinality(firsts)
        /\ \A k \in 1..Len(probe.cache) :
             \E i \in firsts :
               /\ probe.cache[k].thread_id = served[i].thread_id
               /\ Cardinality({ j \in firsts : j <= i }) = k

(***************************************************************************)
(* C33.  get_bedrock_client from several threads.                           *)
(***************************************************************************)
\* thread t returns a client in this step
RaceReturns(t) ==
  /\ probe.th[t].pc # "done"
  /\ probe'.th[t].pc = "done"
  /\ probe'.th[t].result.kind = "returned"

\* C33: in every interleaving of get_bedrock_client calls of several threads
\* at most one thread is inside the locked block; the cache never holds more
\* than CacheSize entries nor two entries for a region, at any intermediate
\* state; a client is constructed for a region only while the region is not
\* cached; the handle cached for a region does not change while the region
\* stays cached; and every caller is returned the handle that the cache
\* holds for its region when it returns.
C33_ConcurrentLookupsExclusive ==
  [][ probe.fn = "get_bedrock_client threads" =>
        /\ Cardinality({ t \in Threads :
                           probe'.th[t].pc \in { "locked", "evict", "construct", "store" } }) <= 1
        /\ Len(probe'.cache) <= CacheSize
        /\ Cardinality(CachedRegions(probe'.cache)) = Len(probe'.cache)
        /\ probe'.made > probe.made =>
             \A t \in Threads :
               probe'.th[t].pc = "store" /\ probe.th[t].pc = "construct" =>
                 probe.th[t].key \notin CachedRegions(probe.cache)
        /\ \A i \in 1..Len(probe.cache), j \in 1..Len(probe'.cache) :
             probe.cache[i].region = probe'.cache[j].region =>
               probe.cache[i].client = probe'.cache[j].client
        /\ \A t \in Threads :
             RaceReturns(t) =>
               \E j \in 1..Len(probe'.cache) :
                 /\ probe'.cache[j].region = probe.th[t].key
                 /\ probe'.cache[j].client = probe'.th[t].result.client
      ]_vars

\* two calls for one region that overlapped in time: one client was
\* constructed and both threads were returned it
C33_Witness ==
  /\ probe.fn = "get_bedrock_client threads"
  /\ probe.made = 1
  /\ \A t \in Threads :
       /\ probe.th[t].pc = "done"
       /\ probe.th[t].key = UsEast1
       /\ probe.th[t].result = LookedUp(1)
  /\ \E t \in Threads : probe.th[t].raced

(***************************************************************************)
(* C34.  One submission per create call.                                    *)
(***************************************************************************)
\* the scheduling helper was reached for call r: it scheduled or it skipped
SubmissionAttempts(r) ==
  Count(r.log, "debug_thread_started") + Count(r.log, "warn_skip_async_shutdown")

C34_OneRoutePerEvent ==
  \A c \in CallIds :
    call[c].op = "create" =>
      /\ call[c].submissions <= 1
      /\ SubmissionAttempts(call[c]) <= 1
      /\ Cardinality(CorosOf(c)) <= 1
      /\ call[c].cloudFailed # NoneV =>
           \A k \in CorosOf(c) :
             /\ coros[k].kind = "create"
             /\ coros[k].event.provider = "ANTHROPIC"
             /\ call[c].directCalls # << >>
      /\ CloudHandlerSucceeded(call[c]) =>
           \A k \in CorosOf(c) :
             /\ coros[k].kind = "bedrock_create"
             /\ coros[k].event.provider = "AWS"

C34_FailureStep ==
  \A c \in CallIds :
    (call[c].op = "create" /\ call[c].cloudFailed = NoneV /\ call'[c].cloudFailed # NoneV) =>
      /\ call'[c].submissions = 0
      /\ SubmissionAttempts(call'[c]) = 0
      /\ \A k \in 1..Len(coros') : coros'[k].call # c
      /\ coros' = coros

\* C34: a create call never has more than one usage-event submission: at the
\* moment its cloud route fails nothing has been submitted or attempted for
\* it, so after the fallback its only event is the direct route's, tagged
\* with the direct provider; and the only event of a call whose cloud route
\* succeeded is the cloud route's.
C34_SingleSubmissionPerCreate ==
  []C34_OneRoutePerEvent /\ [][C34_FailureStep]_vars

\* a create call whose cloud route failed has returned the direct
\* transport's response with exactly one event, the direct route's
C34_Witness ==
  \E c \in CallIds :
    /\ DirectCreateReturned(call[c])
    /\ call[c].cloudFailed = "BedrockInvokeError"
    /\ call[c].submissions = 1
    /\ Cardinality(CorosOf(c)) = 1
    /\ \A k \in CorosOf(c) : coros[k].kind = "create"

(***************************************************************************)
(* C35.  The final message of a drained cloud stream.                       *)
(***************************************************************************)
\* a cloud stream whose text_stream was pulled until the vendor stream was
\* exhausted and whose context was then left
DrainedCloudStream(r) ==
  /\ r.op = "stream"
  /\ r.stream.kind = "bedrock"
  /\ r.stream.it.status = "exhausted"
  /\ r.stream.stops >= 1
  /\ r.stream.exits >= 1

\* the final message and every submitted event of call c carry the whole
\* text and the token counts of the vendor stream's message_stop
CarriesWholeStream(c) ==
  LET st == call[c].stream
      w == st.it.events
  IN  /\ st.final_message.text = Concat(DeltaTexts(w))
      /\ st.final_message.input_tokens = StopInputTokens(LastStopUsage(w))
      /\ st.final_message.output_tokens = StopOutputTokens(LastStopUsage(w))
      /\ \A k \in CorosOf(c) :
           /\ coros[k].event.input_token_count = StopInputTokens(LastStopUsage(w))
           /\ coros[k].event.output_token_count = StopOutputTokens(LastStopUsage(w))

\* C35: for a cloud stream whose text_stream was drained to exhaustion before
\* its context was left, the final message and the usage event carry the
\* whole accumulated text and the token counts of the message_stop event,
\* wherever in the sequence of pulls get_final_message was called.
C35_DrainedStreamFinalIsComplete ==
  \A c \in CallIds : DrainedCloudStream(call[c]) => CarriesWholeStream(c)

\* what holds: the same for the streams on which get_final_message was never
\* called
C35_CompleteWithoutGetFinalMessage ==
  \A c \in CallIds :
    (DrainedCloudStream(call[c]) /\ call[c].stream.finals = 0) => CarriesWholeStream(c)

(***************************************************************************)
(* C36.  A failing get_bedrock_client call and the cache.                   *)
(***************************************************************************)
\* the call made in this step raised
LookupFailed ==
  /\ probe.fn = "get_bedrock_client"
  /\ probe' # probe
  /\ probe'.last.result.kind = "raised"

\* C36: a get_bedrock_client call that fails, because the region is not a
\* non-blank string (BedrockValidationError) or because boto3 is missing or
\* the client constructor raises, leaves the cache exactly as it was: no
\* entry added, none evicted.
C36_FailedLookupLeavesCache ==
  [][ LookupFailed =>
        /\ probe'.cache = probe.cache
        /\ probe'.made = probe.made
        /\ BadRegion(probe'.last.region) =>
             probe'.last.result.exc = "BedrockValidationError"
    ]_vars

\* what holds: an invalid region leaves the cache as it was; a failing
\* construction adds nothing, but on a full cache the oldest entry is gone
C36_FailedLookupAddsNothing ==
  [][ LookupFailed =>
        /\ probe'.made = probe.made
        /\ BadRegion(probe'.last.region) =>
             /\ probe'.last.result.exc = "BedrockValidationError"
             /\ probe'.cache = probe.cache
        /\ ~ BadRegion(probe'.last.region) =>
             probe'.cache = IF Len(probe.cache) = CacheSize
                              THEN SubSeq(probe.cache, 2, Len(probe.cache))
                              ELSE probe.cache
    ]_vars

(***************************************************************************)
(* C37.  The cloud stream is lazy, single-pass and non-restartable.         *)
(***************************************************************************)
\* nothing is asked of the cloud transport before the first pull
C37_NoTransportBeforePull ==
  \A c \in CallIds :
    CloudStream(c) =>
      (call[c].stream.pulls = 0 => call[c].stream.it.transportCalls = 0)

\* a pull on an exhausted stream signals the end again, yields nothing and
\* asks nothing of the transport
C37_ExhaustedStep ==
  \A c \in CallIds :
    (/\ CloudStream(c)
     /\ call[c].stream.it.status = "exhausted"
     /\ call'[c].stream.pulls = call[c].stream.pulls + 1) =>
      /\ call'[c].stream.stops = call[c].stream.stops + 1
      /\ call'[c].stream.yielded = call[c].stream.yielded
      /\ call'[c].stream.accumulated_text = call[c].stream.accumulated_text
      /\ call'[c].stream.it = call[c].stream.it

\* C37: the cloud transport is not called when the stream handle is created
\* or its context is entered; it is called on the first pull and at most once
\* for a stream; and once the stream is exhausted every further pull signals
\* the end of the stream without another transport call and without yielding
\* a fragment again.
C37_LazySinglePass ==
  /\ [](C37_NoTransportBeforePull
        /\ \A c \in CallIds : CloudStream(c) => call[c].stream.it.transportCalls <= 1)
  /\ [][C37_ExhaustedStep]_vars

\* what holds: the transport is called by pulls only, never again once a
\* call of it has returned, and an exhausted stream stays exhausted
C37_LazyAndNotReopened ==
  /\ [](C37_NoTransportBeforePull
        /\ \A c \in CallIds :
             CloudStream(c) => call[c].stream.it.transportCalls <= call[c].stream.pulls)
  /\ [][ C37_ExhaustedStep
         /\ \A c \in CallIds :
              (CloudStream(c) /\ call[c].stream.it.started) =>
                call'[c].stream.it.transportCalls = call[c].stream.it.transportCalls
       ]_vars

(***************************************************************************)
(* C38.  The first-token timestamp of a stream.                             *)
(***************************************************************************)
\* the positions of the non-empty fragments among those returned so far
NonEmptyFragments(st) == { i \in 1..Len(st.yielded) : st.yielded[i] # << >> }

\* when the first non-empty fragment was returned, 0 when none was
FirstNonEmptyAt(st) ==
  IF NonEmptyFragments(st) = {}
    THEN 0
    ELSE CHOOSE i \in NonEmptyFragments(st) : \A j \in NonEmptyFragments(st) : i <= j

C38_FirstTokenState ==
  \A c \in CallIds :
    call[c].stream.kind \in { "direct", "bedrock" } =>
      /\ call[c].stream.first_token_at = FirstNonEmptyAt(call[c].stream)
      /\ \A k \in CorosOf(c) :
           /\ coros[k].kind \in { "stream", "bedrock_stream" }
           /\ coros[k].event.time_to_first_token = FirstNonEmptyAt(call[c].stream)
           /\ NonEmptyFragments(call[c].stream) = {} =>
                coros[k].event.time_to_first_token = 0

C38_FirstTokenStep ==
  \A c \in CallIds :
    call[c].stream.first_token_at # 0 =>
      call'[c].stream.first_token_at = call[c].stream.first_token_at

\* C38: in a stream on either route the first-token timestamp is unset until
\* the first non-empty fragment is returned to the caller, is set to the time
\* of that return, and no later fragment changes it; the usage event reports
\* the time to that fragment, and 0 when no non-empty fragment was returned.
C38_FirstTokenSetOnce ==
  []C38_FirstTokenState /\ [][C38_FirstTokenStep]_vars

\* a stream returned an empty fragment and then two non-empty ones, was left,
\* and its event reports the time of the second fragment returned
C38_Witness ==
  \E c \in CallIds :
    /\ Cardinality(NonEmptyFragments(call[c].stream)) = 2
    /\ call[c].stream.yielded[1] = << >>
    /\ call[c].stream.first_token_at = 2
    /\ \E k \in CorosOf(c) : coros[k].event.time_to_first_token = 2

(***************************************************************************)
(* C39.  The operation type of a usage event.                               *)
(***************************************************************************)
\* the request declares one or more tool definitions
DeclaresTools(kwargs) ==
  /\ "tools" \in DOMAIN kwargs
  /\ kwargs["tools"].type = "list"
  /\ Len(kwargs["tools"].items) >= 1

\* C39: the usage event of an intercepted request carries operation type
\* TOOL_CALL when the request declares one or more tool definitions and CHAT
\* otherwise, and its operation subtype is unset.
C39_OperationTypeFollowsTools ==
  probe.fn = "operation_type" =>
    \A i \in 1..Len(probe.outs) :
      /\ probe.outs[i].operation_type =
           IF DeclaresTools(probe.kwargs) THEN "TOOL_CALL" ELSE "CHAT"
      /\ probe.outs[i].operation_subtype = NoneV

\* what holds: every event carries CHAT and no subtype, tools or not
C39_OperationTypeAlwaysChat ==
  probe.fn = "operation_type" =>
    \A i \in 1..Len(probe.outs) :
      /\ probe.outs[i].operation_type = "CHAT"
      /\ probe.outs[i].operation_subtype = NoneV

(***************************************************************************)
(* C40.  Two intercepted calls in flight at once.  Each call has its own   *)
(* arguments, and its transport gives it its own response, so that an      *)
(* event can be told apart from the other call's.  Each caller leaves the  *)
(* context of its stream once.                                              *)
(***************************************************************************)
MdT2 == [trace_id |-> "t2", organization_id |-> NoneV]
OtherModel == "claude-3-haiku-20240307"

\* the keyword arguments each caller passes
CallKwargs(c) ==
  IF c = "c1"
    THEN With(BaseKw, "usage_metadata", UmDict(MdT1))
    ELSE With(With(BaseKw, "usage_metadata", UmDict(MdT2)), "model", OtherModel)

\* what the provider's transport answers to each call
CallResponse(c) ==
  IF c = "c1"
    THEN DirectResponse("nothing", "end_turn")
    ELSE [DirectResponse("nothing", "tool_use") EXCEPT
            !.id = "msg_direct_2", !.model = OtherModel,
            !.input_tokens = 20, !.output_tokens = 9]

\* the text fragments the provider's stream yields to each call
CallChunks(c) == IF c = "c1" THEN << << "h" >> >> ELSE << << >>, << "i" >> >>

\* the events the vendor stream yields to each call
CallEvents(c) ==
  IF c = "c1"
    THEN << Delta(<< "h" >>), Stop(UsageCamel(10, 5)) >>
    ELSE << Delta(<< >>), Delta(<< "i" >>), Stop(UsageCamel(20, 9)) >>

InitConcurrent ==
  /\ env \in [bedrock_disable : BOOLEAN, ambient : {EmptyMd, MdAmbient}]
  /\ live = CallIds
  /\ call = [c \in CallIds |-> IdleCall]
  /\ coros = << >>
  /\ shutdown = FALSE
  /\ dec = IdleDecoder
  /\ probe = NoProbe

NextConcurrent ==
  \/ \E c \in CallIds, op \in {"create", "stream"}, cl \in ClientSet :
       Invoke(c, op, CallKwargs(c), cl)
  \/ \E c \in CallIds : Extract(c)
  \/ \E c \in CallIds : Decide(c)
  \/ \E c \in CallIds, out \in {"ok", "BedrockInvokeError"} : CloudCreate(c, out)
  \/ \E c \in CallIds : DirectCreateReturns(c, CallResponse(c))
  \/ \E c \in CallIds : StreamOpenCloud(c)
  \/ \E c \in CallIds : StreamOpenDirectReturns(c, CallChunks(c), CallResponse(c), FALSE)
  \/ \E c \in CallIds : Enter(c)
  \/ \E c \in CallIds : PullDirect(c)
  \/ \E c \in CallIds : PullCloud(c, "stream", CallEvents(c))
  \/ \E c \in CallIds : call[c].stream.exits = 0 /\ ExitStream(c)
  \/ \E k \in 1..Len(coros) : CoroStart(k)
  \/ \E k \in 1..Len(coros) : CoroCall(k, "resource")

SpecConcurrent == InitConcurrent /\ [][NextConcurrent]_vars

\* the metadata of a call, from what its caller passed and the ambient
\* metadata alone
OwnMetadata(c) ==
  LET given == call[c].given["usage_metadata"].d
  IN [k \in MdKeys |-> IF given[k] # NoneV THEN given[k] ELSE env.ambient[k]]

\* the event of a coroutine is made of its own call's values
EventOfOwnCall(co) ==
  LET c == co.call
      e == co.event
      own == CallResponse(c)
  IN /\ e.trace_id = OwnMetadata(c)["trace_id"]
     /\ e.organization_id = OwnMetadata(c)["organization_id"]
     /\ e.model = call[c].given["model"]
     /\ e.is_streamed = (call[c].op = "stream")
     /\ co.kind \in {"create", "stream"} =>
          /\ e.transaction_id = own.id
          /\ e.input_token_count = own.input_tokens
          /\ e.output_token_count = own.output_tokens
          /\ e.stop_reason = FinishReason(own.stop_reason)
     /\ co.kind = "bedrock_create" =>
          /\ e.transaction_id = call[c].response.id
          /\ e.input_token_count = call[c].response.input_tokens
          /\ e.output_token_count = call[c].response.output_tokens
     /\ co.kind = "bedrock_stream" =>
          /\ e.transaction_id = call[c].stream.response_id
          /\ e.input_token_count \in {0, own.input_tokens}
          /\ e.output_token_count \in {0, own.output_tokens}
     /\ co.kind \in {"stream", "bedrock_stream"} =>
          e.time_to_first_token \in {0, call[c].stream.first_token_at}

C40_OwnState == \A k \in 1..Len(coros) : EventOfOwnCall(coros[k])

\* a step of one call leaves the other call's record and events alone, and
\* the event it dispatches belongs to the call that took the step
C40_OwnStep ==
  /\ \A c \in CallIds : call'[c] # call[c] =>
       \A d \in CallIds \ {c} : call'[d] = call[d]
  /\ Len(coros') >= Len(coros)
  /\ \A k \in 1..Len(coros) : coros'[k].event = coros[k].event
                              /\ coros'[k].call = coros[k].call
  /\ Len(coros') > Len(coros) =>
       /\ Len(coros') = Len(coros) + 1
       /\ LET co == coros'[Len(coros')]
          IN /\ call'[co.call] # call[co.call]
             /\ co.kind \in {"stream", "bedrock_stream"} =>
                  co.event.time_to_first_token = TimeToFirstToken(call'[co.call].stream)

=============================================================================
